---- MODULE Spec2Model ----
(***************************************************************************)
(* A state-machine model of ectop, a terminal dashboard for an ecFlow      *)
(* server: the application controller (src/ectop/app.py), the main content *)
(* viewer (src/ectop/widgets/content.py), the status bar and the parts of  *)
(* the suite tree the controller drives.                                   *)
(*                                                                         *)
(* Threads.  The UI thread runs one handler at a time; every step of a     *)
(* worker thread that touches a widget is a call_from_thread callback and  *)
(* is therefore one atomic UI step.  A worker is a record with a program   *)
(* counter; one action of the model is one step of one thread.  Textual    *)
(* cannot stop a thread: cancelling a thread worker only marks it, and the *)
(* thread runs on unless its code reads the mark.                          *)
(*                                                                         *)
(* Failures.  A call of the client wrapper ends "ok", raises the wrapper's *)
(* translated RuntimeError, or raises some other Exception, which the      *)
(* wrapper lets through untranslated.                                      *)
(***************************************************************************)
EXTENDS Integers, Sequences, FiniteSets, Bags, TLC

\* ------------------------------------------------------------------ bounds
MaxContentLen == 2   \* longest text handed to update_log in SpecUpdateLog
MaxCalls      == 3   \* update_log calls per behaviour in SpecUpdateLog
MaxLog        == 2   \* longest jobout file of the server in SpecLive
MaxTicks      == 2   \* live-log timer ticks per behaviour in SpecLive
MaxRefresh    == 1   \* presses of the refresh key per behaviour in SpecRefresh and SpecSync
MaxCmd        == 1   \* node commands issued per behaviour in SpecCmd
MaxLoad       == 1   \* loads of a node's files per behaviour in SpecLoad
MaxKeys       == 1   \* node-action keys pressed per behaviour in SpecGuard
MaxFilterKeys == 1   \* presses of the filter key per behaviour in SpecFilter
MaxTreeKeys   == 2   \* expansions and searches per behaviour in SpecLazy
MaxRebuildKeys == 2  \* refreshes, filter presses and searches per behaviour in SpecRebuild
MaxVarKeys    == 2   \* keys pressed in the VariableTweaker per behaviour in SpecVars
MaxEditKeys   == 2   \* presses of the edit key per behaviour in SpecEdit
MaxThreadKeys == 1   \* keys pressed on the main screen per behaviour in SpecThreads
MaxCycleKeys  == 6   \* presses of the filter key per behaviour in SpecCycle
MaxOutputKeys == 2   \* selections and timer ticks per behaviour in SpecOutput
NoteCap       == 2   \* copies of one notification told apart (2 stands for "2 or more")

\* ---------------------------------------------------------------- alphabet
Bytes == {"a", "b"}

\* The texts of length at most n over Bytes.
Texts(n) == UNION {[1..k -> Bytes] : k \in 0..n}

Prefix(s, n) == SubSeq(s, 1, n)

\* Python's content[k:] for 0 <= k; empty when k >= len(content).
SliceFrom(s, k) == SubSeq(s, k + 1, Len(s))

IsPrefix(s, t) == Len(s) <= Len(t) /\ Prefix(t, Len(s)) = s

RECURSIVE Flatten(_)
Flatten(chunks) ==
    IF chunks = <<>> THEN <<>> ELSE Head(chunks) \o Flatten(Tail(chunks))

Outcomes == {"ok", "RuntimeError", "Exception"}

\* ------------------------------------------------------------------- state
VARIABLES
    \* MainContent
    log_output,      \* the chunks written to the Output RichLog since its last clear
    last_log_size,   \* MainContent.last_log_size
    is_live,         \* MainContent.is_live
    active,          \* MainContent.active: the active tab
    view_script,     \* what the Script tab shows
    view_job,        \* what the Job tab shows
    \* Ectop
    ecflow_client,   \* Ectop.ecflow_client: "None" or "Client"
    connPc,          \* position of _initial_connect_worker
    notifications,   \* bag of the notifications emitted, as <<text, argument, severity>>
    modals,          \* the screens pushed (App.push_screen), oldest first
    refresh,         \* the _refresh_worker threads, in the order they were started
    workers,         \* bag of the other worker threads in flight
    appCrashed,      \* an exception left a worker: Textual's exit_on_error ends the app
    \* StatusBar
    sbStatus,        \* StatusBar.status
    sbInfo,          \* StatusBar.server_info
    sbVersion,       \* StatusBar.server_version
    \* SuiteTree
    treeDefs,        \* SuiteTree.defs: a snapshot, NoDefs for None
    treeCache,       \* SuiteTree._all_paths_cache
    treeRows,        \* the rows (TreeNodes) below the root, in the order they were added
    rootLabel,       \* label of the root row
    current_filter,  \* SuiteTree.current_filter: "None" or a state name
    selected,        \* payload of the cursor row: "None" or a path
    \* ecFlow server and the native client behind the wrapper
    srvDefs,         \* the definitions the server holds now
    clientDefs,      \* the native client's local definitions (set by sync_local)
    jobout,          \* the jobout file of the selected node
    \* history
    logCalls,        \* the update_log calls made, as [content, append] records
    calls,           \* bag of the client-wrapper calls made, as <<operation, path, argument>>
    ops,             \* number of user and timer events that started a thread or a screen
    \* VariableTweaker
    var_table,       \* rows of the DataTable #var_table, as [name, value, type, key] records
    cursor_row,      \* DataTable.cursor_row
    selected_var_name, \* VariableTweaker.selected_var_name: "None" or a row key
    input_hidden,    \* the Input #var_input has the class "hidden"
    tweakWorkers,    \* bag of the VariableTweaker's worker threads in flight
    srvVariables,    \* the user variables the server holds, per node and name
    \* WhyInspector
    why_expr,        \* the trigger expression handed to _parse_expression, as its pieces
    why_defs,        \* the definitions handed to it: the state of each path, "None" if absent
    dep_tree,        \* the nodes added under the parent UI node, as [label, data, kids] records
    dep_root,        \* the label of the root of the dependency tree
    \* EcflowClient (the wrapper) and the native ecflow.Client behind it
    native_client,   \* EcflowClient.client with host and port: kind "None" until constructed
    native_calls,    \* the calls made on the native layer and how each ended, in order
    wrapper_out,     \* the calls made on the wrapper and how each ended, in order
    \* cli.main
    cli_argv,        \* the flags on the command line: "None" where a flag is not given
    cli_environ,     \* os.environ: "None" where a variable is not set
    cli_app,         \* how main ended: the arguments Ectop was built with, or the error
    \* ConfirmModal
    confirm_screen,  \* the screen on top of the app's: "None" or "ConfirmModal"
    confirm_log,     \* per presentation, the event handled and the calls made, in order
    \* files
    temp_files,      \* the number of temporary .ecf files of _edit_script_worker on disk
    \* the legacy prototype (ecflowtui) beside the application
    scenario,        \* the user's key and node, and the one server call that fails, if any
    legacy           \* EcflowTUI: its client, tree, cursor, views, notifications and calls

contentVars == <<log_output, last_log_size, is_live, active, view_script, view_job, logCalls>>
statusVars  == <<sbStatus, sbInfo, sbVersion>>
treeVars    == <<treeDefs, treeCache, treeRows, rootLabel, current_filter>>
serverVars  == <<srvDefs, clientDefs, jobout>>
appVars     == <<ecflow_client, connPc, notifications, modals, refresh, workers, appCrashed>>
tweakVars   == <<var_table, cursor_row, selected_var_name, input_hidden, tweakWorkers,
                 srvVariables>>
whyVars     == <<why_expr, why_defs, dep_tree, dep_root>>
wrapperVars == <<native_client, native_calls, wrapper_out>>
cliVars     == <<cli_argv, cli_environ, cli_app>>
confirmVars == <<confirm_screen, confirm_log>>
screenVars  == <<tweakVars, whyVars, wrapperVars, cliVars, confirmVars>>
legacyVars  == <<scenario, legacy>>
extVars     == <<temp_files, legacyVars>>
unitVars    == <<screenVars, extVars>>
vars == <<contentVars, statusVars, treeVars, selected, serverVars, appVars, calls, ops,
          unitVars>>

\* ------------------------------------------------------------ bookkeeping
Notify(b, msg) == IF CopiesIn(msg, b) >= NoteCap THEN b ELSE b (+) SetToBag({msg})

Called(op, path, arg) == calls (+) SetToBag({<<op, path, arg>>})

Replace(bag, w, w2) == (bag (-) SetToBag({w})) (+) SetToBag({w2})
Remove(bag, w) == bag (-) SetToBag({w})

\* ---------------------------------------------------------------- snapshots
\* A snapshot (ecflow.Defs) is its suites, the server's run state and the state
\* of every node (st); NoDefs is None.  The hierarchy is fixed: suite /s1 holds
\* family /s1/f, which holds task /s1/f/T; suite /s2, where present, is empty.
Nodes == {"/s1", "/s1/f", "/s1/f/T", "/s2"}
NoDefs == [id |-> 0, state |-> "None", st |-> <<>>]
DefsIds == {1, 2}
StateOf(id) == IF id = 1 THEN "RUNNING" ELSE "HALTED"
NodeStatesOf(id) ==
    [n \in Nodes |-> CASE n = "/s1" -> "queued"
                       [] n = "/s1/f" -> "active"
                       [] n = "/s1/f/T" -> "aborted"
                       [] OTHER -> "complete"]
Snapshot(id) == [id |-> id, state |-> StateOf(id), st |-> NodeStatesOf(id)]
Snapshots == {NoDefs} \cup {Snapshot(i) : i \in DefsIds}
SuitesOf(id) == IF id = 1 THEN <<"/s1">> ELSE IF id = 2 THEN <<"/s1", "/s2">> ELSE <<>>
NoCache == [present |-> FALSE, paths |-> <<>>]

\* node.nodes: the children of a container, in order; a task has none.
ChildrenOf(defs, path) ==
    IF defs.id = 0 THEN <<>>
    ELSE CASE path = "/s1" -> <<"/s1/f">>
           [] path = "/s1/f" -> <<"/s1/f/T">>
           [] OTHER -> <<>>

\* isinstance(node, (ecflow.Family, ecflow.Suite)) and hasattr(node, "nodes")
IsContainer(path) == path \in {"/s1", "/s1/f", "/s2"}

\* suite.get_all_nodes(): the nodes below a node, depth first, as the callers
\* in sidebar.py and the repository's tests take it.
RECURSIVE Descendants(_, _)
Descendants(defs, path) ==
    LET kids == ChildrenOf(defs, path)
        F[k \in 0..Len(kids)] ==
            IF k = 0 THEN <<>>
            ELSE F[k - 1] \o <<kids[k]>> \o Descendants(defs, kids[k])
    IN F[Len(kids)]

\* The flat path list of a snapshot, as both cache builders compute it.
AllPaths(defs) ==
    LET suites == SuitesOf(defs.id)
        F[k \in 0..Len(suites)] ==
            IF k = 0 THEN <<>>
            ELSE F[k - 1] \o <<suites[k]>> \o Descendants(defs, suites[k])
    IN F[Len(suites)]

\* defs.find_abs_node(path): the node, or None when the snapshot has no such path.
find_abs_node(defs, path) ==
    IF \E k \in 1..Len(SuitesOf(defs.id)) :
           LET s == SuitesOf(defs.id)[k] IN
           path = s \/ \E j \in 1..Len(Descendants(defs, s)) : Descendants(defs, s)[j] = path
    THEN path ELSE "None"

\* The characters of a path.
Chars(path) ==
    CASE path = "/s1" -> <<"/", "s", "1">>
      [] path = "/s1/f" -> <<"/", "s", "1", "/", "f">>
      [] path = "/s1/f/T" -> <<"/", "s", "1", "/", "f", "/", "T">>
      [] path = "/s2" -> <<"/", "s", "2">>
      [] OTHER -> <<>>

\* A thread worker: the decorated method, its position, its arguments path and
\* arg, the texts it holds (val, and old for _finish_edit's old_content), the
\* outcomes of the client calls it has made, and whether it was started with
\* no row selected or no client connected; for the workers of the tree, the
\* snapshot they read (defs), the row they hold (node; 0 is the root), whether
\* a Tree.clear() has since detached that row (stale), and the search query.
Worker(kind, pc, path, arg) ==
    [kind |-> kind, pc |-> pc, path |-> path, arg |-> arg, val |-> <<>>, old |-> <<>>,
     out |-> <<>>, idle |-> (path = "None" \/ ecflow_client = "None"),
     defs |-> NoDefs, node |-> 0, stale |-> FALSE, query |-> <<>>]

InFlight(kind, pc) == {w \in BagToSet(workers) : w.kind = kind /\ w.pc = pc}

\* The number of copies bag b holds of the elements of S.
RECURSIVE SumCopies(_, _)
SumCopies(b, S) ==
    IF S = {} THEN 0
    ELSE LET w == CHOOSE x \in S : TRUE IN CopiesIn(w, b) + SumCopies(b, S \ {w})

\* -------------------------------------------------------------- tree rows
\* SuiteTree.filters, in cycling order.
Filters == <<"None", "aborted", "active", "queued", "submitted", "suspended">>

\* _should_show_node that looks at the node and its children only.
should_show_node_shallow(defs, path, flt) ==
    IF flt = "None" THEN TRUE
    ELSE IF defs.st[path] = flt THEN TRUE
    ELSE IF IsContainer(path)
         THEN \E k \in 1..Len(ChildrenOf(defs, path)) :
                  defs.st[ChildrenOf(defs, path)[k]] = flt
         ELSE FALSE

\* SuiteTree._should_show_node(node) under filter flt, for a node of snapshot defs.
RECURSIVE should_show_node(_, _, _)
should_show_node(defs, path, flt) ==
    IF flt = "None" THEN TRUE
    ELSE IF defs.st[path] = flt THEN TRUE
    ELSE IF IsContainer(path)
         THEN \E k \in 1..Len(ChildrenOf(defs, path)) :
                  should_show_node(defs, ChildrenOf(defs, path)[k], flt)
         ELSE FALSE

\* A row (TreeNode): the row it hangs under (0 for the root), its payload, whether
\* its "loading..." placeholder child is present, and whether it is expanded.
\* SuiteTree._add_node_to_ui creates it collapsed, with the placeholder exactly
\* when the node is a container with at least one child.
add_node_to_ui(parent, path, defs) ==
    [parent |-> parent, data |-> path,
     ph |-> (IsContainer(path) /\ ChildrenOf(defs, path) # <<>>), open |-> FALSE]

\* The rows of a tree that _populate_tree_worker has finished building from
\* snapshot defs under filter flt, nothing expanded yet.
TopLevel(defs, flt) ==
    LET suites == SuitesOf(defs.id)
        F[k \in 0..Len(suites)] ==
            IF k = 0 THEN <<>>
            ELSE IF should_show_node(defs, suites[k], flt)
                 THEN Append(F[k - 1], add_node_to_ui(0, suites[k], defs))
                 ELSE F[k - 1]
    IN F[Len(suites)]

\* The rows under row i (under the root for i = 0), oldest first, and their payloads.
KidsOf(rows, i) == SelectSeq([j \in 1..Len(rows) |-> j], LAMBDA j : rows[j].parent = i)
Payloads(rows, i) == [k \in 1..Len(KidsOf(rows, i)) |-> rows[KidsOf(rows, i)[k]].data]

\* len(ui_node.children) == 1 and str(ui_node.children[0].label) == LOADING_PLACEHOLDER
OnlyPlaceholder(rows, i) == rows[i].ph /\ KidsOf(rows, i) = <<>>

\* The root label update_tree writes for a present snapshot:
\* f"{ICON_SERVER} {client_host}:{client_port}{filter_str}"
FilterLabel(host, flt) ==
    host \o (IF flt = "None" THEN "" ELSE " [Filter: " \o flt \o "]")

\* ------------------------------------------------------- MainContent.update_log
\* The message show_error writes; no text of a log file equals it.
ErrLine == <<"[italic red]">>

\* update_log that, in append mode, sets the marker even when it writes nothing.
update_log_marker_always(content, append) ==
    /\ logCalls' = Append(logCalls, [content |-> content, append |-> append])
    /\ IF ~append
       THEN /\ log_output' = <<content>>
            /\ last_log_size' = Len(content)
       ELSE LET new_content == SliceFrom(content, last_log_size) IN
            /\ log_output' = IF new_content # <<>> THEN Append(log_output, new_content)
                             ELSE log_output
            /\ last_log_size' = Len(content)

\* update_log in append mode that writes the whole content again.
update_log_rewrite(content, append) ==
    /\ logCalls' = Append(logCalls, [content |-> content, append |-> append])
    /\ IF ~append
       THEN /\ log_output' = <<content>>
            /\ last_log_size' = Len(content)
       ELSE /\ log_output' = IF content # <<>> THEN Append(log_output, content) ELSE log_output
            /\ last_log_size' = Len(content)

\* MainContent.update_log(content, append): runs on the UI thread.
update_log(content, append) ==
    /\ logCalls' = Append(logCalls, [content |-> content, append |-> append])
    /\ IF ~append
       THEN \* widget.clear(); self.last_log_size = len(content); widget.write(content)
            /\ log_output' = <<content>>
            /\ last_log_size' = Len(content)
       ELSE LET new_content == SliceFrom(content, last_log_size) IN
            IF new_content # <<>>
            THEN /\ log_output' = Append(log_output, new_content)
                 /\ last_log_size' = Len(content)
            ELSE UNCHANGED <<log_output, last_log_size>>

\* Tab text of a code view: Static.update replaces what the view shows.
Shown(kind, text) == [kind |-> kind, text |-> text]

\* MainContent.show_error(widget_id, message)
show_error_log == log_output' = Append(log_output, ErrLine)

\* ----------------------------------------------------- node variables
\* The node the VariableTweaker was opened on, and its parents, nearest first
\* (node.parent, parent.parent, ...).
node_path == "/s1/f/T"
ParentsOf(path) ==
    IF path = "/s1/f/T" THEN <<"/s1/f", "/s1">>
    ELSE IF path = "/s1/f" THEN <<"/s1">> ELSE <<>>

\* node.name()
NameOf(path) ==
    IF path = "/s1/f/T" THEN "T"
    ELSE IF path = "/s1/f" THEN "f"
    ELSE IF path = "/s1" THEN "s1" ELSE "s2"

\* Variable names, in the order a node lists its variables.  "None" in
\* srvVariables: the node has no user variable of that name.  TASK is also the
\* name of a generated variable, and inh_A is a name that begins with "inh_".
VarNames == <<"A", "TASK", "inh_A">>
VarNameSet == {VarNames[k] : k \in 1..Len(VarNames)}
NoVariables == [p \in {node_path} \cup {"/s1/f", "/s1"} |-> [n \in VarNameSet |-> "None"]]

\* node.generated_variables: what ecFlow generates for a task.
generated_variables(path) ==
    IF path = "/s1/f/T" THEN <<[name |-> "TASK", value |-> "T"]>> ELSE <<>>

\* node.variables: the user variables of a node.
variables(sv, path) ==
    LET F[k \in 0..Len(VarNames)] ==
            IF k = 0 THEN <<>>
            ELSE IF sv[path][VarNames[k]] = "None" THEN F[k - 1]
                 ELSE Append(F[k - 1], [name |-> VarNames[k], value |-> sv[path][VarNames[k]]])
    IN F[Len(VarNames)]

\* No VariableTweaker is open.
TweakerUnmounted ==
    /\ var_table = <<>>
    /\ cursor_row = 0
    /\ selected_var_name = "None"
    /\ input_hidden = TRUE
    /\ tweakWorkers = EmptyBag

\* No WhyInspector has parsed anything.
WhyIdle ==
    /\ why_expr = <<>>
    /\ why_defs = <<>>
    /\ dep_tree = <<>>
    /\ dep_root = "Dependencies"

\* The screens and units that have a specification of their own are idle.
ScreensIdle ==
    /\ native_client = [kind |-> "None"] /\ native_calls = <<>>
    /\ wrapper_out = <<>>
    /\ cli_argv = <<>> /\ cli_environ = <<>> /\ cli_app = [kind |-> "none"]
    /\ confirm_screen = "None" /\ confirm_log = <<>>
    /\ temp_files = 0

\* The legacy prototype is not running.
LegacyIdle == scenario = <<>> /\ legacy = <<>>

OtherUnitsIdle == ScreensIdle /\ LegacyIdle

UnitsIdle == WhyIdle /\ OtherUnitsIdle

\* No VariableTweaker is open and no node of the server has a user variable.
TweakerClosed == TweakerUnmounted /\ srvVariables = NoVariables /\ UnitsIdle

\* ------------------------------------------------------------------- Init
\* The state after Ectop.__init__, compose and the widgets' __init__, before on_mount.
InitApp ==
    /\ log_output = <<>>
    /\ last_log_size = 0
    /\ is_live = FALSE
    /\ active = "tab_output"
    /\ view_script = Shown("empty", <<>>)
    /\ view_job = Shown("empty", <<>>)
    /\ ecflow_client = "None"
    /\ connPc = "construct"
    /\ notifications = EmptyBag
    /\ modals = <<>>
    /\ refresh = <<>>
    /\ workers = EmptyBag
    /\ appCrashed = FALSE
    /\ sbStatus = "Unknown"
    /\ sbInfo = "Disconnected"
    /\ sbVersion = "Unknown"
    /\ treeDefs = NoDefs
    /\ treeCache = NoCache
    /\ treeRows = <<>>
    /\ rootLabel = "ecFlow Server"
    /\ current_filter = "None"
    /\ selected = "None"
    /\ srvDefs \in Snapshots
    /\ clientDefs = NoDefs
    /\ jobout = <<>>
    /\ logCalls = <<>>
    /\ calls = EmptyBag
    /\ ops = 0

Init == InitApp /\ TweakerClosed

\* ------------------------------------------------- SpecUpdateLog: update_log alone
\* Any caller, any text, either mode.
UpdateLogCall ==
    /\ Len(logCalls) < MaxCalls
    /\ \E content \in Texts(MaxContentLen), append \in BOOLEAN :
           update_log(content, append)
    /\ UNCHANGED <<unitVars, is_live, active, view_script, view_job, statusVars, treeVars,
                   selected, serverVars, appVars, calls, ops>>

NextUpdateLog == UpdateLogCall

SpecUpdateLog == Init /\ [][NextUpdateLog]_vars

\* ------------------------------------------------------- live log (app.py)
\* What ecflow_client.file(path, "jobout") returns: the suite /s2 has an
\* output file of its own, which no text of jobout equals; jobout is the file
\* of the other nodes.
OtherJobout == <<"c", "d">>
JoboutOf(path) == IF path = "/s2" THEN OtherJobout ELSE jobout

\* Ectop.action_toggle_live
action_toggle_live ==
    /\ ~appCrashed
    /\ is_live' = ~is_live
    /\ notifications' = Notify(notifications, <<"Live Log", IF is_live' THEN "ON" ELSE "OFF", "">>)
    /\ active' = IF is_live' THEN "tab_output" ELSE active
    /\ UNCHANGED <<unitVars, log_output, last_log_size, view_script, view_job, logCalls, statusVars,
                   treeVars, selected, serverVars, ecflow_client, connPc, modals, refresh,
                   workers, appCrashed, calls, ops>>

\* The user activates another tab of the TabbedContent.
ActivateTab ==
    /\ ~appCrashed
    /\ \E t \in {"tab_output", "tab_script", "tab_job"} : t # active /\ active' = t
    /\ UNCHANGED <<unitVars, log_output, last_log_size, is_live, view_script, view_job, logCalls,
                   statusVars, treeVars, selected, serverVars, appVars, calls, ops>>

\* Ectop._live_log_tick: the timer's callback, on the UI thread.
live_log_tick ==
    /\ ~appCrashed
    /\ ecflow_client # "None"
    /\ is_live /\ active = "tab_output"
    /\ selected # "None"
    /\ workers' = workers (+) SetToBag({Worker("live", "file", selected, "jobout")})
    /\ ops' = ops + 1
    /\ UNCHANGED <<unitVars, contentVars, statusVars, treeVars, selected, serverVars, ecflow_client,
                   connPc, notifications, modals, refresh, appCrashed, calls>>

\* Ectop._live_log_worker, first half: content = self.ecflow_client.file(path, "jobout").
\* RuntimeError is passed over in silence; nothing catches any other exception.
live_log_worker_file(w) ==
    /\ ~appCrashed
    /\ w \in InFlight("live", "file")
    /\ calls' = Called("file", w.path, "jobout")
    /\ \E out \in Outcomes :
         /\ workers' = IF out = "ok"
                       THEN Replace(workers, w, [w EXCEPT !.pc = "update_log", !.val = JoboutOf(w.path)])
                       ELSE Remove(workers, w)
         /\ appCrashed' = (out = "Exception")
    /\ UNCHANGED <<unitVars, contentVars, statusVars, treeVars, selected, serverVars, ecflow_client,
                   connPc, notifications, modals, refresh, ops>>

\* Ectop._live_log_worker, second half:
\* self.call_from_thread(content_area.update_log, content, append=True).
live_log_worker_update(w) ==
    /\ ~appCrashed
    /\ w \in InFlight("live", "update_log")
    /\ update_log(w.val, TRUE)
    /\ workers' = Remove(workers, w)
    /\ UNCHANGED <<unitVars, is_live, active, view_script, view_job, statusVars, treeVars, selected,
                   serverVars, ecflow_client, connPc, notifications, modals, refresh,
                   appCrashed, calls, ops>>

\* The running task writes one more byte to its output file.
JoboutGrows ==
    /\ Len(jobout) < MaxLog
    /\ \E b \in Bytes : jobout' = Append(jobout, b)
    /\ UNCHANGED <<unitVars, contentVars, statusVars, treeVars, selected, srvDefs, clientDefs,
                   appVars, calls, ops>>

\* A session in which the connect and a refresh have succeeded and the cursor is
\* on a row; the Output tab is as __init__ left it or as a load of that node's
\* jobout left it (the file may have grown since).
InitLive ==
    /\ \E c0 \in Texts(MaxLog), loaded \in BOOLEAN, j \in Texts(MaxLog) :
         /\ IsPrefix(c0, j)
         /\ jobout = j
         /\ log_output = IF loaded THEN <<c0>> ELSE <<>>
         /\ last_log_size = IF loaded THEN Len(c0) ELSE 0
         /\ (~loaded => c0 = <<>>)
    /\ is_live = FALSE
    /\ active = "tab_output"
    /\ view_script = Shown("empty", <<>>)
    /\ view_job = Shown("empty", <<>>)
    /\ ecflow_client = "Client"
    /\ connPc = "done"
    /\ notifications = EmptyBag
    /\ modals = <<>>
    /\ refresh = <<>>
    /\ workers = EmptyBag
    /\ appCrashed = FALSE
    /\ sbStatus = "RUNNING"
    /\ sbInfo = "host:port"
    /\ sbVersion = "Unknown"
    /\ srvDefs = Snapshot(1)
    /\ clientDefs = srvDefs
    /\ treeDefs = srvDefs
    /\ treeCache = [present |-> TRUE, paths |-> AllPaths(treeDefs)]
    /\ treeRows = TopLevel(treeDefs, "None")
    /\ rootLabel = "host:port"
    /\ current_filter = "None"
    /\ selected = "/s1"
    /\ logCalls = <<>>
    /\ calls = EmptyBag
    /\ ops = 0
    /\ TweakerClosed

LiveTick == ops < MaxTicks /\ live_log_tick

NextLive ==
    \/ action_toggle_live
    \/ ActivateTab
    \/ LiveTick
    \/ \E w \in BagToSet(workers) : live_log_worker_file(w)
    \/ \E w \in BagToSet(workers) : live_log_worker_update(w)
    \/ JoboutGrows

SpecLive == InitLive /\ [][NextLive]_vars

\* ------------------------------------------------------------ ecFlow server
\* Somebody else changes what the server holds.
ServerChanges ==
    /\ \E d \in Snapshots : d # srvDefs /\ srvDefs' = d
    /\ UNCHANGED <<unitVars, contentVars, statusVars, treeVars, selected, clientDefs, jobout,
                   appVars, calls, ops>>

\* ------------------------------------------------- SuiteTree (sidebar.py)

\* The workers that hold a row of the tree: Tree.clear() replaces the root and
\* drops every row, so the row such a worker holds is no longer in the tree.
HoldsRow(w) ==
    \/ w.kind = "children"
    \/ w.kind = "find" /\ w.pc \in {"check", "remove", "add", "expand", "select"}

Detach(w) == IF HoldsRow(w) THEN [w EXCEPT !.stale = TRUE] ELSE w

DetachAll(b) ==
    [x \in {Detach(w) : w \in BagToSet(b)} |->
        SumCopies(b, {w \in BagToSet(b) : Detach(w) = x})]

\* SuiteTree.update_tree(host, port, defs), on the UI thread, with flt the value
\* of self.current_filter: the rows are cleared, the cache is dropped, and for
\* a present snapshot the two background workers are started.  Tree.clear()
\* leaves the cursor either on nothing or on the row object it was on.
update_tree(host, defs, pool, flt) ==
    /\ treeDefs' = defs
    /\ treeCache' = NoCache
    /\ treeRows' = <<>>
    /\ selected' \in {"None", selected}
    /\ rootLabel' = IF defs = NoDefs THEN "Server Empty" ELSE FilterLabel(host, flt)
    /\ workers' = IF defs = NoDefs THEN DetachAll(pool)
                  ELSE DetachAll(pool)
                         (+) SetToBag({Worker("populate", "start", "None", "")})
                         (+) SetToBag({Worker("cache", "read", "None", "")})

\* SuiteTree._populate_tree_worker, entry: `if not self.defs: return`, then the
\* iteration over self.defs.suites begins.
populate_tree_worker_start(w) ==
    /\ ~appCrashed
    /\ w \in InFlight("populate", "start")
    /\ workers' = IF treeDefs = NoDefs \/ SuitesOf(treeDefs.id) = <<>>
                  THEN Remove(workers, w)
                  ELSE Replace(workers, w, [w EXCEPT !.pc = "add", !.defs = treeDefs,
                                                     !.val = SuitesOf(treeDefs.id)])
    /\ UNCHANGED <<unitVars, contentVars, statusVars, treeVars, selected, serverVars, ecflow_client,
                   connPc, notifications, modals, refresh, appCrashed, calls, ops>>

\* SuiteTree._populate_tree_worker, one iteration: when the suite passes
\* _should_show_node under the filter of this moment, _add_node_to_ui adds its
\* row under self.root (the root of this moment), on the UI thread.
populate_tree_worker_add(w) ==
    /\ ~appCrashed
    /\ w \in InFlight("populate", "add")
    /\ treeRows' = IF should_show_node(w.defs, Head(w.val), current_filter)
                   THEN Append(treeRows, add_node_to_ui(0, Head(w.val), w.defs))
                   ELSE treeRows
    /\ workers' = IF Tail(w.val) = <<>> THEN Remove(workers, w)
                  ELSE Replace(workers, w, [w EXCEPT !.val = Tail(w.val)])
    /\ UNCHANGED <<unitVars, contentVars, statusVars, treeDefs, treeCache, rootLabel, current_filter,
                   selected, serverVars, ecflow_client, connPc, notifications, modals,
                   refresh, appCrashed, calls, ops>>

\* The filter after flt in SuiteTree.filters, wrapping.
NextFilter(flt) ==
    LET idx == CHOOSE k \in 1..Len(Filters) : Filters[k] = flt
    IN Filters[(idx % Len(Filters)) + 1]

\* The host:port texts update_tree is called with: a host name with its port,
\* and the IPv6 loopback address ::1 with port 3141.
RootHosts == {"host:port", "::1:3141"}

\* The labels update_tree writes for a host:port text.
LabelsOf(host) == {FilterLabel(host, Filters[k]) : k \in 1..Len(Filters)}

\* The host:port that action_cycle_filter reads back from the root label: the
\* first space-separated part holding a ":", split at its first ":", the port
\* cut at "[" and given to int(); "Server", 0 when no part holds a ":".  For
\* "::1:3141" the split gives host "" and port ":1:3141", and int(":1:3141")
\* raises ValueError.
HostOf(label) ==
    CASE label \in LabelsOf("host:port") -> "host:port"
      [] label \in LabelsOf("::1:3141") -> "ValueError"
      [] OTHER -> "Server:0"

\* SuiteTree.action_cycle_filter (key F, through Ectop.action_cycle_filter): the
\* next filter is set, the tree is rebuilt from self.defs when there is one,
\* and the filter's name is notified.
action_cycle_filter ==
    /\ ~appCrashed
    /\ current_filter' = NextFilter(current_filter)
    /\ IF treeDefs # NoDefs /\ HostOf(rootLabel) = "ValueError"
       THEN /\ appCrashed' = TRUE
            /\ UNCHANGED <<treeDefs, treeCache, treeRows, rootLabel, selected, workers,
                           notifications>>
       ELSE /\ IF treeDefs # NoDefs
               THEN update_tree(HostOf(rootLabel), treeDefs, workers,
                                NextFilter(current_filter))
               ELSE UNCHANGED <<treeDefs, treeCache, treeRows, rootLabel, selected, workers>>
            /\ notifications' = Notify(notifications,
                                       <<"Filter", IF NextFilter(current_filter) = "None"
                                                   THEN "All"
                                                   ELSE NextFilter(current_filter), "">>)
            /\ UNCHANGED appCrashed
    /\ ops' = ops + 1
    /\ UNCHANGED <<unitVars, contentVars, statusVars, serverVars, ecflow_client, connPc, modals,
                   refresh, calls>>

\* SuiteTree._build_all_paths_cache_worker: the walk over self.defs ...
build_all_paths_cache_worker_read(w) ==
    /\ ~appCrashed
    /\ w \in InFlight("cache", "read")
    /\ workers' = IF treeDefs = NoDefs THEN Remove(workers, w)
                  ELSE Replace(workers, w, [w EXCEPT !.pc = "assign", !.val = AllPaths(treeDefs)])
    /\ UNCHANGED <<unitVars, contentVars, statusVars, treeVars, selected, serverVars, ecflow_client,
                   connPc, notifications, modals, refresh, appCrashed, calls, ops>>

\* ... and its last statement, self._all_paths_cache = paths.
build_all_paths_cache_worker_assign(w) ==
    /\ ~appCrashed
    /\ w \in InFlight("cache", "assign")
    /\ treeCache' = [present |-> TRUE, paths |-> w.val]
    /\ workers' = Remove(workers, w)
    /\ UNCHANGED <<unitVars, contentVars, statusVars, treeDefs, treeRows, rootLabel, current_filter, selected,
                   serverVars, ecflow_client, connPc, notifications, modals, refresh,
                   appCrashed, calls, ops>>

\* The user moves the cursor to a row of the tree.
CursorMoves ==
    /\ ~appCrashed
    /\ \E i \in 1..Len(treeRows) : treeRows[i].data # selected /\ selected' = treeRows[i].data
    /\ UNCHANGED <<unitVars, contentVars, statusVars, treeVars, serverVars, appVars, calls, ops>>

\* ------------------------------------------------------ refresh (app.py)
\* A _refresh_worker thread: its position, its locals defs and status, how it
\* ended, who called action_refresh, where the connect worker stood at that
\* moment, and whether a later refresh has cancelled it.
RefreshWorker(src) ==
    [pc |-> "start", defs |-> NoDefs, status |-> "", out |-> "", src |-> src,
     connAt |-> connPc, cancelled |-> FALSE]

\* Starting the exclusive _refresh_worker: the same-group workers still running
\* are cancelled, which marks them; the new thread is queued.
StartRefresh(src) ==
    Append([i \in DOMAIN refresh |->
               IF refresh[i].pc # "done" THEN [refresh[i] EXCEPT !.cancelled = TRUE]
               ELSE refresh[i]],
           RefreshWorker(src))

\* Ectop.action_refresh as called by `src`: nothing without a client.
action_refresh(src) ==
    IF ecflow_client = "None" THEN refresh ELSE StartRefresh(src)

\* The user presses r.
UserRefresh ==
    /\ ~appCrashed
    /\ ecflow_client # "None"
    /\ refresh' = action_refresh(<<"user", "">>)
    /\ ops' = ops + 1
    /\ UNCHANGED <<unitVars, contentVars, statusVars, treeVars, selected, serverVars, ecflow_client,
                   connPc, notifications, modals, workers, appCrashed, calls>>

Advance(i, pc) == [refresh EXCEPT ![i].pc = pc]
Failed(i, out) ==
    [refresh EXCEPT ![i].pc = IF out = "RuntimeError" THEN "err_status" ELSE "unexp_notify",
                    ![i].out = out]

\* _refresh_worker: self.call_from_thread(self.notify, "Refreshing tree...")
refresh_worker_start(i) ==
    /\ ~appCrashed
    /\ refresh[i].pc = "start"
    /\ notifications' = Notify(notifications, <<"Refreshing tree...", "", "">>)
    /\ refresh' = Advance(i, "sync_local")
    /\ UNCHANGED <<unitVars, contentVars, statusVars, treeVars, selected, serverVars, ecflow_client,
                   connPc, modals, workers, appCrashed, calls, ops>>

\* _refresh_worker: self.ecflow_client.sync_local()
refresh_worker_sync_local(i) ==
    /\ ~appCrashed
    /\ refresh[i].pc = "sync_local"
    /\ calls' = Called("sync_local", "", "")
    /\ \E out \in Outcomes :
         /\ clientDefs' = IF out = "ok" THEN srvDefs ELSE clientDefs
         /\ refresh' = IF out = "ok" THEN Advance(i, "get_defs") ELSE Failed(i, out)
    /\ UNCHANGED <<unitVars, contentVars, statusVars, treeVars, selected, srvDefs, jobout,
                   ecflow_client, connPc, notifications, modals, workers, appCrashed, ops>>

\* _refresh_worker: defs = self.ecflow_client.get_defs(), then the status label.
refresh_worker_get_defs(i) ==
    /\ ~appCrashed
    /\ refresh[i].pc = "get_defs"
    /\ calls' = Called("get_defs", "", "")
    /\ \E out \in Outcomes :
         refresh' = IF out = "ok"
                    THEN [refresh EXCEPT ![i].pc = "update_tree",
                                         ![i].defs = clientDefs,
                                         ![i].status = IF clientDefs # NoDefs
                                                       THEN clientDefs.state
                                                       ELSE "Connected"]
                    ELSE Failed(i, out)
    /\ UNCHANGED <<unitVars, contentVars, statusVars, treeVars, selected, serverVars, ecflow_client,
                   connPc, notifications, modals, workers, appCrashed, ops>>

\* _refresh_worker: self.call_from_thread(tree.update_tree, host, port, defs)
refresh_worker_update_tree(i) ==
    /\ ~appCrashed
    /\ refresh[i].pc = "update_tree"
    /\ update_tree("host:port", refresh[i].defs, workers, current_filter)
    /\ UNCHANGED current_filter
    /\ refresh' = Advance(i, "update_status")
    /\ UNCHANGED <<unitVars, contentVars, statusVars, serverVars, ecflow_client, connPc,
                   notifications, modals, appCrashed, calls, ops>>

\* _refresh_worker: self.call_from_thread(status_bar.update_status, host, port, status=status)
refresh_worker_update_status(i) ==
    /\ ~appCrashed
    /\ refresh[i].pc = "update_status"
    /\ sbStatus' = refresh[i].status
    /\ sbInfo' = "host:port"
    /\ sbVersion' = "Unknown"
    /\ refresh' = Advance(i, "notify_done")
    /\ UNCHANGED <<unitVars, contentVars, treeVars, selected, serverVars, ecflow_client, connPc,
                   notifications, modals, workers, appCrashed, calls, ops>>

\* _refresh_worker: self.call_from_thread(self.notify, "Tree Refreshed")
refresh_worker_notify_done(i) ==
    /\ ~appCrashed
    /\ refresh[i].pc = "notify_done"
    /\ notifications' = Notify(notifications, <<"Tree Refreshed", "", "">>)
    /\ refresh' = [refresh EXCEPT ![i].pc = "done", ![i].out = "ok"]
    /\ UNCHANGED <<unitVars, contentVars, statusVars, treeVars, selected, serverVars, ecflow_client,
                   connPc, modals, workers, appCrashed, calls, ops>>

\* The RuntimeError handler that also empties the tree.
refresh_worker_err_status_clears(i) ==
    /\ ~appCrashed
    /\ refresh[i].pc = "err_status"
    /\ sbStatus' = "Sync Error"
    /\ sbInfo' = "host:port"
    /\ sbVersion' = "Unknown"
    /\ update_tree("host:port", NoDefs, workers, current_filter)
    /\ UNCHANGED current_filter
    /\ refresh' = Advance(i, "err_notify")
    /\ UNCHANGED <<unitVars, contentVars, serverVars, ecflow_client, connPc,
                   notifications, modals, appCrashed, calls, ops>>

\* _refresh_worker, except RuntimeError: update_status(..., status=STATUS_SYNC_ERROR)
refresh_worker_err_status(i) ==
    /\ ~appCrashed
    /\ refresh[i].pc = "err_status"
    /\ sbStatus' = "Sync Error"
    /\ sbInfo' = "host:port"
    /\ sbVersion' = "Unknown"
    /\ refresh' = Advance(i, "err_notify")
    /\ UNCHANGED <<unitVars, contentVars, treeVars, selected, serverVars, ecflow_client, connPc,
                   notifications, modals, workers, appCrashed, calls, ops>>

\* _refresh_worker, except RuntimeError: notify(f"Refresh Error: {e}", severity="error")
refresh_worker_err_notify(i) ==
    /\ ~appCrashed
    /\ refresh[i].pc = "err_notify"
    /\ notifications' = Notify(notifications, <<"Refresh Error", "", "error">>)
    /\ refresh' = Advance(i, "done")
    /\ UNCHANGED <<unitVars, contentVars, statusVars, treeVars, selected, serverVars, ecflow_client,
                   connPc, modals, workers, appCrashed, calls, ops>>

\* _refresh_worker, except Exception: notify(f"Unexpected Error: {e}", severity="error")
refresh_worker_unexp_notify(i) ==
    /\ ~appCrashed
    /\ refresh[i].pc = "unexp_notify"
    /\ notifications' = Notify(notifications, <<"Unexpected Error", "", "error">>)
    /\ refresh' = Advance(i, "done")
    /\ UNCHANGED <<unitVars, contentVars, statusVars, treeVars, selected, serverVars, ecflow_client,
                   connPc, modals, workers, appCrashed, calls, ops>>

refresh_worker(i) ==
    \/ refresh_worker_start(i)
    \/ refresh_worker_sync_local(i)
    \/ refresh_worker_get_defs(i)
    \/ refresh_worker_update_tree(i)
    \/ refresh_worker_update_status(i)
    \/ refresh_worker_notify_done(i)
    \/ refresh_worker_err_status(i)
    \/ refresh_worker_err_notify(i)
    \/ refresh_worker_unexp_notify(i)

\* ------------------------------------------------ initial connect (app.py)
\* _initial_connect_worker: self.ecflow_client = EcflowClient(self.host, self.port).
\* The assignment happens only when the constructor returns.
initial_connect_worker_construct ==
    /\ ~appCrashed
    /\ connPc = "construct"
    /\ calls' = Called("EcflowClient", "", "")
    /\ \E out \in Outcomes :
         /\ ecflow_client' = IF out = "ok" THEN "Client" ELSE ecflow_client
         /\ connPc' = CASE out = "ok" -> "ping"
                        [] out = "RuntimeError" -> "fail_notify"
                        [] OTHER -> "unexp_notify"
    /\ UNCHANGED <<unitVars, contentVars, statusVars, treeVars, selected, serverVars, notifications,
                   modals, refresh, workers, appCrashed, ops>>

\* _initial_connect_worker: self.ecflow_client.ping()
initial_connect_worker_ping ==
    /\ ~appCrashed
    /\ connPc = "ping"
    /\ calls' = Called("ping", "", "")
    /\ \E out \in Outcomes :
         connPc' = CASE out = "ok" -> "refresh"
                     [] out = "RuntimeError" -> "fail_notify"
                     [] OTHER -> "unexp_notify"
    /\ UNCHANGED <<unitVars, contentVars, statusVars, treeVars, selected, serverVars, ecflow_client,
                   notifications, modals, refresh, workers, appCrashed, ops>>

\* _initial_connect_worker: self.call_from_thread(self.action_refresh)
initial_connect_worker_refresh ==
    /\ ~appCrashed
    /\ connPc = "refresh"
    /\ refresh' = action_refresh(<<"connect", "">>)
    /\ connPc' = "done"
    /\ UNCHANGED <<unitVars, contentVars, statusVars, treeVars, selected, serverVars, ecflow_client,
                   notifications, modals, workers, appCrashed, calls, ops>>

\* except RuntimeError: notify(f"{ERROR_CONNECTION_FAILED}: {e}", severity="error", timeout=10)
initial_connect_worker_fail_notify ==
    /\ ~appCrashed
    /\ connPc = "fail_notify"
    /\ notifications' = Notify(notifications, <<"Connection Failed", "", "error">>)
    /\ connPc' = "fail_label"
    /\ UNCHANGED <<unitVars, contentVars, statusVars, treeVars, selected, serverVars, ecflow_client,
                   modals, refresh, workers, appCrashed, calls, ops>>

\* except RuntimeError: self.call_from_thread(self._update_tree_error, tree)
initial_connect_worker_fail_label ==
    /\ ~appCrashed
    /\ connPc = "fail_label"
    /\ rootLabel' = "Connection Failed (Check Host/Port)"
    /\ connPc' = "failed"
    /\ UNCHANGED <<unitVars, contentVars, statusVars, treeDefs, treeCache, treeRows, current_filter, selected,
                   serverVars, appCrashed, ecflow_client, notifications, modals, refresh,
                   workers, calls, ops>>

\* except Exception: notify(f"Unexpected Error: {e}", severity="error")
initial_connect_worker_unexp_notify ==
    /\ ~appCrashed
    /\ connPc = "unexp_notify"
    /\ notifications' = Notify(notifications, <<"Unexpected Error", "", "error">>)
    /\ connPc' = "failed"
    /\ UNCHANGED <<unitVars, contentVars, statusVars, treeVars, selected, serverVars, ecflow_client,
                   modals, refresh, workers, appCrashed, calls, ops>>

initial_connect_worker ==
    \/ initial_connect_worker_construct
    \/ initial_connect_worker_ping
    \/ initial_connect_worker_refresh
    \/ initial_connect_worker_fail_notify
    \/ initial_connect_worker_fail_label
    \/ initial_connect_worker_unexp_notify

tree_workers ==
    \/ \E w \in BagToSet(workers) : populate_tree_worker_start(w)
    \/ \E w \in BagToSet(workers) : populate_tree_worker_add(w)
    \/ \E w \in BagToSet(workers) : build_all_paths_cache_worker_read(w)
    \/ \E w \in BagToSet(workers) : build_all_paths_cache_worker_assign(w)

\* ---------------------------------------- SpecRefresh: connect and refreshes
RefreshKey == ops < MaxRefresh /\ UserRefresh

NextRefresh ==
    \/ initial_connect_worker
    \/ RefreshKey
    \/ \E i \in DOMAIN refresh : refresh_worker(i)
    \/ tree_workers
    \/ ServerChanges

SpecRefresh == Init /\ [][NextRefresh]_vars

\* ------------------------------------------ SpecSync: refreshes of a loaded tree
\* A session in which the connect and a refresh have succeeded and the tree's
\* workers have finished: the tree shows snapshot d, the cursor is on the root
\* or on a row, the server may have moved on since, and the selected node's
\* jobout file holds j.
SessionApp(j) ==
    /\ log_output = <<>>
    /\ last_log_size = 0
    /\ is_live = FALSE
    /\ active = "tab_output"
    /\ view_script = Shown("empty", <<>>)
    /\ view_job = Shown("empty", <<>>)
    /\ ecflow_client = "Client"
    /\ connPc = "done"
    /\ notifications = EmptyBag
    /\ modals = <<>>
    /\ refresh = <<>>
    /\ workers = EmptyBag
    /\ appCrashed = FALSE
    /\ \E d \in Snapshots \ {NoDefs} :
         /\ clientDefs = d
         /\ treeDefs = d
         /\ treeCache = [present |-> TRUE, paths |-> AllPaths(d)]
         /\ treeRows = TopLevel(d, "None")
         /\ sbStatus = d.state
         /\ selected \in {"None"} \cup {SuitesOf(d.id)[k] : k \in 1..Len(SuitesOf(d.id))}
    /\ sbInfo = "host:port"
    /\ sbVersion = "Unknown"
    /\ rootLabel = "host:port"
    /\ current_filter = "None"
    /\ srvDefs \in Snapshots
    /\ jobout = j
    /\ logCalls = <<>>
    /\ calls = EmptyBag
    /\ ops = 0

Session(j) == SessionApp(j) /\ TweakerClosed

InitSession == Session(<<>>)

NextSync ==
    \/ RefreshKey
    \/ \E i \in DOMAIN refresh : refresh_worker(i)
    \/ tree_workers
    \/ ServerChanges

SpecSync == InitSession /\ [][NextSync]_vars

\* ---------------------------- SpecFilter: tree builds under a status filter
\* The node states a snapshot of SpecFilter draws from, and the filters it
\* starts under.
NodeStateSet == {"queued", "active", "aborted"}
StartFilters == {"None", "aborted", "active"}

\* A connected session whose snapshot gives the four nodes any states, with a
\* filter set and the tree built under it.
InitFilter ==
    /\ log_output = <<>>
    /\ last_log_size = 0
    /\ is_live = FALSE
    /\ active = "tab_output"
    /\ view_script = Shown("empty", <<>>)
    /\ view_job = Shown("empty", <<>>)
    /\ ecflow_client = "Client"
    /\ connPc = "done"
    /\ notifications = EmptyBag
    /\ modals = <<>>
    /\ refresh = <<>>
    /\ workers = EmptyBag
    /\ appCrashed = FALSE
    /\ \E st \in [Nodes -> NodeStateSet], flt \in StartFilters :
         /\ treeDefs = [id |-> 2, state |-> StateOf(2), st |-> st]
         /\ current_filter = flt
         /\ treeRows = TopLevel(treeDefs, flt)
         /\ rootLabel = FilterLabel("host:port", flt)
    /\ clientDefs = treeDefs
    /\ srvDefs = treeDefs
    /\ treeCache = [present |-> TRUE, paths |-> AllPaths(treeDefs)]
    /\ sbStatus = treeDefs.state
    /\ sbInfo = "host:port"
    /\ sbVersion = "Unknown"
    /\ selected = "None"
    /\ jobout = <<>>
    /\ logCalls = <<>>
    /\ calls = EmptyBag
    /\ ops = 0
    /\ TweakerClosed

FilterKey == ops < MaxFilterKeys /\ action_cycle_filter

NextFilterSpec ==
    \/ FilterKey
    \/ tree_workers

SpecFilter == InitFilter /\ [][NextFilterSpec]_vars

\* ------------------------------------------- node commands (app.py 542-656)
\* The command names action_suspend, action_resume, action_kill, action_force
\* and action_requeue hand to _run_client_command.
Commands == {"suspend", "resume", "kill", "force_complete", "requeue"}

\* command_name.replace("_", " ").capitalize()
Capitalized(cmd) ==
    CASE cmd = "suspend" -> "Suspend"
      [] cmd = "resume" -> "Resume"
      [] cmd = "kill" -> "Kill"
      [] cmd = "force_complete" -> "Force complete"
      [] cmd = "requeue" -> "Requeue"

\* action_suspend / action_resume / action_kill / action_force / action_requeue:
\* self._run_client_command(name, self.get_selected_path()).  The path is read
\* on the UI thread; the worker thread is started whatever it is.
action_run_client_command(cmd) ==
    /\ ~appCrashed
    /\ workers' = workers (+) SetToBag({Worker("cmd", "check", selected, cmd)})
    /\ ops' = ops + 1
    /\ UNCHANGED <<unitVars, contentVars, statusVars, treeVars, selected, serverVars, ecflow_client,
                   connPc, notifications, modals, refresh, appCrashed, calls>>

\* _run_client_command: `if not path or not self.ecflow_client: return`
run_client_command_check(w) ==
    /\ ~appCrashed
    /\ w \in InFlight("cmd", "check")
    /\ workers' = IF w.path = "None" \/ ecflow_client = "None"
                  THEN Replace(workers, w, [w EXCEPT !.pc = "done"])
                  ELSE Replace(workers, w, [w EXCEPT !.pc = "call"])
    /\ UNCHANGED <<unitVars, contentVars, statusVars, treeVars, selected, serverVars, ecflow_client,
                   connPc, notifications, modals, refresh, appCrashed, calls, ops>>

\* _run_client_command: method = getattr(self.ecflow_client, command_name); method(path)
run_client_command_call(w) ==
    /\ ~appCrashed
    /\ w \in InFlight("cmd", "call")
    /\ calls' = Called(w.arg, w.path, "")
    /\ \E out \in Outcomes :
         workers' = Replace(workers, w,
                      [w EXCEPT !.pc = CASE out = "ok" -> "notify"
                                         [] out = "RuntimeError" -> "err_notify"
                                         [] OTHER -> "unexp_notify",
                                !.out = Append(w.out, out)])
    /\ UNCHANGED <<unitVars, contentVars, statusVars, treeVars, selected, serverVars, ecflow_client,
                   connPc, notifications, modals, refresh, appCrashed, ops>>

\* _run_client_command: call_from_thread(self.notify, f"{Capitalized name}: {path}")
run_client_command_notify(w) ==
    /\ ~appCrashed
    /\ w \in InFlight("cmd", "notify")
    /\ notifications' = Notify(notifications, <<Capitalized(w.arg), w.path, "">>)
    /\ workers' = Replace(workers, w, [w EXCEPT !.pc = "refresh"])
    /\ UNCHANGED <<unitVars, contentVars, statusVars, treeVars, selected, serverVars, ecflow_client,
                   connPc, modals, refresh, appCrashed, calls, ops>>

\* The error handlers that go on to refresh the tree as the success path does.
run_client_command_err_notify_refreshes(w) ==
    /\ ~appCrashed
    /\ w \in InFlight("cmd", "err_notify")
    /\ notifications' = Notify(notifications, <<"Command Error", "", "error">>)
    /\ refresh' = action_refresh(<<w.arg, w.path>>)
    /\ workers' = Replace(workers, w, [w EXCEPT !.pc = "done"])
    /\ UNCHANGED <<unitVars, contentVars, statusVars, treeVars, selected, serverVars, ecflow_client,
                   connPc, modals, appCrashed, calls, ops>>

\* _run_client_command: self.action_refresh().  The worker thread calls the
\* handler itself; run_worker hands the start of the new worker over to the
\* UI thread and waits for it.
run_client_command_refresh(w) ==
    /\ ~appCrashed
    /\ w \in InFlight("cmd", "refresh")
    /\ refresh' = action_refresh(<<w.arg, w.path>>)
    /\ workers' = Replace(workers, w, [w EXCEPT !.pc = "done"])
    /\ UNCHANGED <<unitVars, contentVars, statusVars, treeVars, selected, serverVars, ecflow_client,
                   connPc, notifications, modals, appCrashed, calls, ops>>

\* except RuntimeError: notify(f"Command Error: {e}", severity="error")
run_client_command_err_notify(w) ==
    /\ ~appCrashed
    /\ w \in InFlight("cmd", "err_notify")
    /\ notifications' = Notify(notifications, <<"Command Error", "", "error">>)
    /\ workers' = Replace(workers, w, [w EXCEPT !.pc = "done"])
    /\ UNCHANGED <<unitVars, contentVars, statusVars, treeVars, selected, serverVars, ecflow_client,
                   connPc, modals, refresh, appCrashed, calls, ops>>

\* except Exception: notify(f"Unexpected Error: {e}", severity="error")
run_client_command_unexp_notify(w) ==
    /\ ~appCrashed
    /\ w \in InFlight("cmd", "unexp_notify")
    /\ notifications' = Notify(notifications, <<"Unexpected Error", "", "error">>)
    /\ workers' = Replace(workers, w, [w EXCEPT !.pc = "done"])
    /\ UNCHANGED <<unitVars, contentVars, statusVars, treeVars, selected, serverVars, ecflow_client,
                   connPc, modals, refresh, appCrashed, calls, ops>>

run_client_command(w) ==
    \/ run_client_command_check(w)
    \/ run_client_command_call(w)
    \/ run_client_command_notify(w)
    \/ run_client_command_refresh(w)
    \/ run_client_command_err_notify(w)
    \/ run_client_command_unexp_notify(w)

\* ------------------------------------------------- SpecCmd: node commands
CommandKey == ops < MaxCmd /\ \E cmd \in Commands : action_run_client_command(cmd)

NextCmd ==
    \/ CommandKey
    \/ \E w \in BagToSet(workers) : run_client_command(w)
    \/ \E i \in DOMAIN refresh : refresh_worker(i)
    \/ tree_workers

SpecCmd == InitSession /\ [][NextCmd]_vars

\* --------------------------------------------- load node files (app.py 480-540)
\* What the server returns for the script and the job file of a node.
ScriptOf(path) == <<"script", path>>
JobOf(path) == <<"job", path>>

\* MainContent.show_error on a Static: the view shows the message alone.
ErrorShown(message) == Shown("error", <<message>>)

\* Ectop.action_load_node, on the UI thread.
action_load_node ==
    /\ ~appCrashed
    /\ IF selected = "None" \/ ecflow_client = "None"
       THEN /\ notifications' = Notify(notifications, <<"No node selected", "", "warning">>)
            /\ UNCHANGED workers
       ELSE /\ workers' = workers (+) SetToBag({Worker("load", "notify", selected, "")})
            /\ UNCHANGED notifications
    /\ ops' = ops + 1
    /\ UNCHANGED <<unitVars, contentVars, statusVars, treeVars, selected, serverVars, ecflow_client,
                   connPc, modals, refresh, appCrashed, calls>>

\* _load_node_worker: call_from_thread(self.notify, f"Loading files for {path}...")
load_node_worker_notify(w) ==
    /\ ~appCrashed
    /\ w \in InFlight("load", "notify")
    /\ notifications' = Notify(notifications, <<"Loading files for", w.path, "">>)
    /\ workers' = Replace(workers, w, [w EXCEPT !.pc = "sync_local"])
    /\ UNCHANGED <<unitVars, contentVars, statusVars, treeVars, selected, serverVars, ecflow_client,
                   connPc, modals, refresh, appCrashed, calls, ops>>

\* A client call of _load_node_worker at position pc that ends `out`: on "ok" the
\* thread goes on to `next` holding the result, on RuntimeError to `handler`;
\* no except clause matches any other exception, which ends the thread.
LoadCall(w, out, next, handler, result) ==
    [w EXCEPT !.pc = CASE out = "ok" -> next
                       [] out = "RuntimeError" -> handler
                       [] OTHER -> "raised",
              !.val = IF out = "ok" THEN result ELSE <<>>,
              !.out = Append(w.out, out)]

\* _load_node_worker: try: self.ecflow_client.sync_local() except RuntimeError: pass
load_node_worker_sync_local(w) ==
    /\ ~appCrashed
    /\ w \in InFlight("load", "sync_local")
    /\ calls' = Called("sync_local", "", "")
    /\ \E out \in Outcomes :
         /\ workers' = Replace(workers, w, LoadCall(w, out, "jobout", "jobout", <<>>))
         /\ clientDefs' = IF out = "ok" THEN srvDefs ELSE clientDefs
         /\ appCrashed' = (out = "Exception")
    /\ UNCHANGED <<unitVars, contentVars, statusVars, treeVars, selected, srvDefs, jobout,
                   ecflow_client, connPc, notifications, modals, refresh, ops>>

\* _load_node_worker: content = self.ecflow_client.file(path, file_type), for the
\* file type the thread has reached.
load_node_worker_file(w) ==
    /\ ~appCrashed
    /\ \E t \in {"jobout", "script", "job"} :
         /\ w \in InFlight("load", t)
         /\ calls' = Called("file", w.path, t)
         /\ \E out \in Outcomes :
              /\ workers' = Replace(workers, w,
                              LoadCall(w, out, "show_" \o t, "error_" \o t,
                                       CASE t = "jobout" -> JoboutOf(w.path)
                                         [] t = "script" -> ScriptOf(w.path)
                                         [] OTHER -> JobOf(w.path)))
              /\ appCrashed' = (out = "Exception")
    /\ UNCHANGED <<unitVars, contentVars, statusVars, treeVars, selected, serverVars, ecflow_client,
                   connPc, notifications, modals, refresh, ops>>

\* _load_node_worker: call_from_thread(content_area.update_log, content), or in
\* the handler call_from_thread(content_area.show_error, "#log_output", ...)
load_node_worker_output(w) ==
    /\ ~appCrashed
    /\ \/ /\ w \in InFlight("load", "show_jobout")
          /\ update_log(w.val, FALSE)
       \/ /\ w \in InFlight("load", "error_jobout")
          /\ show_error_log
          /\ UNCHANGED <<last_log_size, logCalls>>
    /\ workers' = Replace(workers, w, [w EXCEPT !.pc = "script", !.val = <<>>])
    /\ UNCHANGED <<unitVars, is_live, active, view_script, view_job, statusVars, treeVars, selected,
                   serverVars, ecflow_client, connPc, notifications, modals, refresh,
                   appCrashed, calls, ops>>

\* _load_node_worker: call_from_thread(content_area.update_script, content), or
\* show_error("#view_script", "File type 'script' not available.")
load_node_worker_script(w) ==
    /\ ~appCrashed
    /\ \/ /\ w \in InFlight("load", "show_script")
          /\ view_script' = Shown("syntax", w.val)
       \/ /\ w \in InFlight("load", "error_script")
          /\ view_script' = ErrorShown("File type 'script' not available.")
    /\ workers' = Replace(workers, w, [w EXCEPT !.pc = "job", !.val = <<>>])
    /\ UNCHANGED <<unitVars, log_output, last_log_size, is_live, active, view_job, logCalls,
                   statusVars, treeVars, selected, serverVars, ecflow_client, connPc,
                   notifications, modals, refresh, appCrashed, calls, ops>>

\* _load_node_worker: call_from_thread(content_area.update_job, content), or
\* show_error("#view_job", "File type 'job' not available.")
load_node_worker_job(w) ==
    /\ ~appCrashed
    /\ \/ /\ w \in InFlight("load", "show_job")
          /\ view_job' = Shown("syntax", w.val)
       \/ /\ w \in InFlight("load", "error_job")
          /\ view_job' = ErrorShown("File type 'job' not available.")
    /\ workers' = Replace(workers, w, [w EXCEPT !.pc = "done", !.val = <<>>])
    /\ UNCHANGED <<unitVars, log_output, last_log_size, is_live, active, view_script, logCalls,
                   statusVars, treeVars, selected, serverVars, ecflow_client, connPc,
                   notifications, modals, refresh, appCrashed, calls, ops>>

load_node_worker(w) ==
    \/ load_node_worker_notify(w)
    \/ load_node_worker_sync_local(w)
    \/ load_node_worker_file(w)
    \/ load_node_worker_output(w)
    \/ load_node_worker_script(w)
    \/ load_node_worker_job(w)

\* ------------------------------------------------ SpecLoad: loading a node
InitLoad == \E j \in Texts(MaxLog) : Session(j)

LoadKey == ops < MaxLoad /\ action_load_node

NextLoad ==
    \/ LoadKey
    \/ \E w \in BagToSet(workers) : load_node_worker(w)
    \/ CursorMoves

SpecLoad == InitLoad /\ [][NextLoad]_vars

\* ------------------------------------------ inspectors (app.py 730-756)
Screen(name, path) == [screen |-> name, path |-> path]

\* Ectop.action_why with an unconditional push_screen.
action_why_unguarded ==
    /\ ~appCrashed
    /\ modals' = Append(modals, Screen("WhyInspector", selected))
    /\ ops' = ops + 1
    /\ UNCHANGED <<unitVars, contentVars, statusVars, treeVars, selected, serverVars, ecflow_client,
                   connPc, notifications, refresh, workers, appCrashed, calls>>

\* Ectop.action_why
action_why ==
    /\ ~appCrashed
    /\ IF selected = "None" \/ ecflow_client = "None"
       THEN /\ notifications' = Notify(notifications, <<"No node selected", "", "warning">>)
            /\ UNCHANGED modals
       ELSE /\ modals' = Append(modals, Screen("WhyInspector", selected))
            /\ UNCHANGED notifications
    /\ ops' = ops + 1
    /\ UNCHANGED <<unitVars, contentVars, statusVars, treeVars, selected, serverVars, ecflow_client,
                   connPc, refresh, workers, appCrashed, calls>>

\* Ectop.action_variables
action_variables ==
    /\ ~appCrashed
    /\ IF selected = "None" \/ ecflow_client = "None"
       THEN /\ notifications' = Notify(notifications, <<"No node selected", "", "warning">>)
            /\ UNCHANGED modals
       ELSE /\ modals' = Append(modals, Screen("VariableTweaker", selected))
            /\ UNCHANGED notifications
    /\ ops' = ops + 1
    /\ UNCHANGED <<unitVars, contentVars, statusVars, treeVars, selected, serverVars, ecflow_client,
                   connPc, refresh, workers, appCrashed, calls>>

\* ------------------------------------------ script editing (app.py 768-877)
\* What the user leaves in the temporary file: the script as fetched, or a
\* changed one.
Edited(content) == {content, Append(content, "edited")}

\* The script the server returns for a node: its lines end in a line feed, or
\* the last one in carriage return and line feed.
Scripts(path) == {ScriptOf(path), Append(ScriptOf(path), "<CRLF>")}

\* f.write(content) on a file opened with mode="w": a line feed is written as
\* os.linesep, which is the line feed itself; nothing else is translated.
write_text(content) == content

\* f.read() on a file opened with open(temp_path): universal newlines, every
\* carriage return and line feed pair is read as a line feed.
read_text(file) == [k \in DOMAIN file |-> IF file[k] = "<CRLF>" THEN "<LF>" ELSE file[k]]

\* Ectop.action_edit_script
action_edit_script ==
    /\ ~appCrashed
    /\ IF selected = "None" \/ ecflow_client = "None"
       THEN /\ notifications' = Notify(notifications, <<"No node selected", "", "warning">>)
            /\ UNCHANGED workers
       ELSE /\ workers' = workers (+) SetToBag({Worker("edit", "check", selected, "")})
            /\ UNCHANGED notifications
    /\ ops' = ops + 1
    /\ UNCHANGED <<unitVars, contentVars, statusVars, treeVars, selected, serverVars, ecflow_client,
                   connPc, modals, refresh, appCrashed, calls>>

\* _edit_script_worker: `if not self.ecflow_client: return`
edit_script_worker_check(w) ==
    /\ ~appCrashed
    /\ w \in InFlight("edit", "check")
    /\ workers' = Replace(workers, w,
                    [w EXCEPT !.pc = IF ecflow_client = "None" THEN "done" ELSE "file"])
    /\ UNCHANGED <<unitVars, contentVars, statusVars, treeVars, selected, serverVars, ecflow_client,
                   connPc, notifications, modals, refresh, appCrashed, calls, ops>>

\* _edit_script_worker: content = self.ecflow_client.file(path, "script"), written
\* to a temporary file created with delete=False.
edit_script_worker_file(w) ==
    /\ ~appCrashed
    /\ w \in InFlight("edit", "file")
    /\ calls' = Called("file", w.path, "script")
    /\ \E out \in Outcomes, content \in Scripts(w.path) :
         /\ workers' = Replace(workers, w,
                      [w EXCEPT !.pc = CASE out = "ok" -> "run_editor"
                                         [] out = "RuntimeError" -> "err_notify"
                                         [] OTHER -> "unexp_notify",
                                !.val = IF out = "ok" THEN content ELSE <<>>,
                                !.out = Append(w.out, out)])
         /\ temp_files' = IF out = "ok" THEN temp_files + 1 ELSE temp_files
    /\ UNCHANGED <<screenVars, legacyVars, contentVars, statusVars, treeVars, selected, serverVars, ecflow_client,
                   connPc, notifications, modals, refresh, appCrashed, ops>>

\* _edit_script_worker: call_from_thread(self._run_editor, temp_path, path, content).
\* _run_editor runs the editor with the UI suspended and then starts the
\* _finish_edit worker on the old content and the temporary file.  The worker
\* holds the text of the file (val), the content that was fetched (old) and
\* whether the user has changed the file (arg).
edit_script_worker_run_editor(w) ==
    /\ ~appCrashed
    /\ w \in InFlight("edit", "run_editor")
    /\ \E file \in Edited(write_text(w.val)) :
         workers' = Replace(workers, w, [w EXCEPT !.pc = "done", !.val = <<>>])
                       (+) SetToBag({[Worker("finish", "read", w.path,
                                             IF file = write_text(w.val) THEN "unchanged"
                                             ELSE "changed")
                                         EXCEPT !.val = file, !.old = w.val]})
    /\ UNCHANGED <<unitVars, contentVars, statusVars, treeVars, selected, serverVars, ecflow_client,
                   connPc, notifications, modals, refresh, appCrashed, calls, ops>>

\* _edit_script_worker, except RuntimeError / except Exception: the notification.
edit_script_worker_failed(w) ==
    /\ ~appCrashed
    /\ \/ /\ w \in InFlight("edit", "err_notify")
          /\ notifications' = Notify(notifications, <<"Edit Error", "", "error">>)
       \/ /\ w \in InFlight("edit", "unexp_notify")
          /\ notifications' = Notify(notifications, <<"Unexpected Error", "", "error">>)
    /\ workers' = Replace(workers, w, [w EXCEPT !.pc = "done"])
    /\ UNCHANGED <<unitVars, contentVars, statusVars, treeVars, selected, serverVars, ecflow_client,
                   connPc, modals, refresh, appCrashed, calls, ops>>

\* _finish_edit: the file is read and removed; new_content is compared with
\* old_content, and a change is sent only if a client is held.
finish_edit_read(w) ==
    /\ ~appCrashed
    /\ w \in InFlight("finish", "read")
    /\ LET new_content == read_text(w.val) IN
       workers' = Replace(workers, w,
                    [w EXCEPT !.val = new_content,
                              !.pc = IF new_content = w.old THEN "same_notify"
                                     ELSE IF ecflow_client = "None" THEN "done"
                                     ELSE "alter"])
    /\ temp_files' = temp_files - 1
    /\ UNCHANGED <<screenVars, legacyVars, contentVars, statusVars, treeVars, selected, serverVars, ecflow_client,
                   connPc, notifications, modals, refresh, appCrashed, calls, ops>>

\* _finish_edit: self.ecflow_client.alter(path, "change", "script", new_content)
finish_edit_alter(w) ==
    /\ ~appCrashed
    /\ w \in InFlight("finish", "alter")
    /\ calls' = Called("alter", w.path, "change script")
    /\ \E out \in Outcomes :
         workers' = Replace(workers, w,
                      [w EXCEPT !.pc = CASE out = "ok" -> "updated_notify"
                                         [] out = "RuntimeError" -> "err_notify"
                                         [] OTHER -> "unexp_notify",
                                !.out = Append(w.out, out)])
    /\ UNCHANGED <<unitVars, contentVars, statusVars, treeVars, selected, serverVars, ecflow_client,
                   connPc, notifications, modals, refresh, appCrashed, ops>>

\* _finish_edit: one of its notifications: "Script updated on server", "No changes
\* detected", f"Update Error: {e}", f"Unexpected Error: {e}".
finish_edit_notify(w) ==
    /\ ~appCrashed
    /\ \/ /\ w \in InFlight("finish", "updated_notify")
          /\ notifications' = Notify(notifications, <<"Script updated on server", "", "">>)
          /\ workers' = Replace(workers, w, [w EXCEPT !.pc = "prompt"])
       \/ /\ w \in InFlight("finish", "same_notify")
          /\ notifications' = Notify(notifications, <<"No changes detected", "", "">>)
          /\ workers' = Replace(workers, w, [w EXCEPT !.pc = "done"])
       \/ /\ w \in InFlight("finish", "err_notify")
          /\ notifications' = Notify(notifications, <<"Update Error", "", "error">>)
          /\ workers' = Replace(workers, w, [w EXCEPT !.pc = "done"])
       \/ /\ w \in InFlight("finish", "unexp_notify")
          /\ notifications' = Notify(notifications, <<"Unexpected Error", "", "error">>)
          /\ workers' = Replace(workers, w, [w EXCEPT !.pc = "done"])
    /\ UNCHANGED <<unitVars, contentVars, statusVars, treeVars, selected, serverVars, ecflow_client,
                   connPc, modals, refresh, appCrashed, calls, ops>>

\* _finish_edit: call_from_thread(self._prompt_requeue, path), which pushes the
\* ConfirmModal.
finish_edit_prompt(w) ==
    /\ ~appCrashed
    /\ w \in InFlight("finish", "prompt")
    /\ modals' = Append(modals, Screen("ConfirmModal", w.path))
    /\ workers' = Replace(workers, w, [w EXCEPT !.pc = "done"])
    /\ UNCHANGED <<unitVars, contentVars, statusVars, treeVars, selected, serverVars, ecflow_client,
                   connPc, notifications, refresh, appCrashed, calls, ops>>

\* do_requeue calling self.ecflow_client.requeue(path) itself, on the thread
\* that runs the modal's callback.
answer_requeue_inline(event) ==
    /\ ~appCrashed
    /\ modals # <<>>
    /\ modals[Len(modals)].screen = "ConfirmModal"
    /\ calls' = IF event \in {"y", "yes_btn"} /\ ecflow_client # "None"
                THEN Called("requeue", modals[Len(modals)].path, "")
                ELSE calls
    /\ modals' = SubSeq(modals, 1, Len(modals) - 1)
    /\ UNCHANGED <<unitVars, contentVars, statusVars, treeVars, selected, serverVars, ecflow_client,
                   connPc, notifications, refresh, workers, appCrashed, ops>>

\* The user answers the ConfirmModal on top: 'y' or the Yes button run
\* do_requeue, which starts _run_client_command("requeue", path) if a client
\* is held, and pop the screen; any other key or button only pops it.
answer_requeue(event) ==
    /\ ~appCrashed
    /\ modals # <<>>
    /\ modals[Len(modals)].screen = "ConfirmModal"
    /\ workers' = IF event \in {"y", "yes_btn"} /\ ecflow_client # "None"
                  THEN workers (+) SetToBag({Worker("cmd", "check",
                                                    modals[Len(modals)].path, "requeue")})
                  ELSE workers
    /\ modals' = SubSeq(modals, 1, Len(modals) - 1)
    /\ UNCHANGED <<unitVars, contentVars, statusVars, treeVars, selected, serverVars, ecflow_client,
                   connPc, notifications, refresh, appCrashed, calls, ops>>

edit_script(w) ==
    \/ edit_script_worker_check(w)
    \/ edit_script_worker_file(w)
    \/ edit_script_worker_run_editor(w)
    \/ edit_script_worker_failed(w)
    \/ finish_edit_read(w)
    \/ finish_edit_alter(w)
    \/ finish_edit_notify(w)
    \/ finish_edit_prompt(w)

\* --------------------------------- SpecGuard: the node actions from start-up
\* No node action reads the path cache; its builder is scheduled in SpecRefresh,
\* SpecSync and SpecCmd and stays queued here.
NodeKey ==
    /\ ops < MaxKeys
    /\ \/ action_load_node
       \/ \E cmd \in Commands : action_run_client_command(cmd)
       \/ action_why
       \/ action_variables
       \/ action_edit_script

NextGuard ==
    \/ initial_connect_worker
    \/ \E i \in DOMAIN refresh : refresh_worker(i)
    \/ \E w \in BagToSet(workers) : populate_tree_worker_start(w)
    \/ \E w \in BagToSet(workers) : populate_tree_worker_add(w)
    \/ CursorMoves
    \/ NodeKey
    \/ \E w \in BagToSet(workers) : run_client_command(w)
    \/ \E w \in BagToSet(workers) : load_node_worker(w)
    \/ \E w \in BagToSet(workers) : edit_script(w)

\* Start-up against a server that holds nothing or the one-suite snapshot.
InitGuard == Init /\ srvDefs.id <= 1

SpecGuard == InitGuard /\ [][NextGuard]_vars

\* --------------------------------------- lazy loading (sidebar.py 253-336)
\* The row i of the tree with field f set to v.
SetRow(rows, i, f, v) ==
    [rows EXCEPT ![i] = IF f = "ph" THEN [@ EXCEPT !.ph = v] ELSE [@ EXCEPT !.open = v]]

\* _load_children that starts the worker and leaves the placeholder in place.
load_children_async_keeps_placeholder(rows, i) ==
    IF rows[i].data # "None" /\ treeDefs # NoDefs /\ OnlyPlaceholder(rows, i)
    THEN [rows |-> rows,
          started |-> SetToBag({[Worker("children", "start", rows[i].data, "")
                                     EXCEPT !.node = i]})]
    ELSE [rows |-> rows, started |-> EmptyBag]

\* SuiteTree._load_children(ui_node) as on_tree_node_expanded calls it, on the
\* UI thread, for row i: with the placeholder as the only child, the
\* placeholder is removed and _load_children_worker is started.
load_children_async(rows, i) ==
    IF rows[i].data # "None" /\ treeDefs # NoDefs /\ OnlyPlaceholder(rows, i)
    THEN [rows |-> SetRow(rows, i, "ph", FALSE),
          started |-> SetToBag({[Worker("children", "start", rows[i].data, "")
                                     EXCEPT !.node = i]})]
    ELSE [rows |-> rows, started |-> EmptyBag]

\* The user expands row i, which has something under it: the row opens and
\* SuiteTree.on_tree_node_expanded runs.
on_tree_node_expanded(i) ==
    /\ ~appCrashed
    /\ i \in 1..Len(treeRows)
    /\ treeRows[i].ph \/ KidsOf(treeRows, i) # <<>>
    /\ LET r == load_children_async(SetRow(treeRows, i, "open", TRUE), i) IN
       /\ treeRows' = r.rows
       /\ workers' = workers (+) r.started
    /\ ops' = ops + 1
    /\ UNCHANGED <<unitVars, contentVars, statusVars, treeDefs, treeCache, rootLabel, current_filter,
                   selected, serverVars, ecflow_client, connPc, notifications, modals,
                   refresh, appCrashed, calls>>

\* SuiteTree._load_children_worker, entry: `if not self.defs: return`, the node
\* is looked up in self.defs and the iteration over its children begins.
load_children_worker_start(w) ==
    /\ ~appCrashed
    /\ w \in InFlight("children", "start")
    /\ workers' = IF treeDefs = NoDefs \/ find_abs_node(treeDefs, w.path) = "None"
                     \/ ~IsContainer(w.path) \/ ChildrenOf(treeDefs, w.path) = <<>>
                  THEN Remove(workers, w)
                  ELSE Replace(workers, w, [w EXCEPT !.pc = "add", !.defs = treeDefs,
                                                     !.val = ChildrenOf(treeDefs, w.path)])
    /\ UNCHANGED <<unitVars, contentVars, statusVars, treeVars, selected, serverVars, ecflow_client,
                   connPc, notifications, modals, refresh, appCrashed, calls, ops>>

\* SuiteTree._load_children_worker, one iteration: a child that passes
\* _should_show_node is added under the row the worker holds, on the UI thread;
\* under a row that a Tree.clear() has detached the addition shows nowhere.
load_children_worker_add(w) ==
    /\ ~appCrashed
    /\ w \in InFlight("children", "add")
    /\ treeRows' = IF should_show_node(w.defs, Head(w.val), current_filter) /\ ~w.stale
                   THEN Append(treeRows, add_node_to_ui(w.node, Head(w.val), w.defs))
                   ELSE treeRows
    /\ workers' = IF Tail(w.val) = <<>> THEN Remove(workers, w)
                  ELSE Replace(workers, w, [w EXCEPT !.val = Tail(w.val)])
    /\ UNCHANGED <<unitVars, contentVars, statusVars, treeDefs, treeCache, rootLabel, current_filter,
                   selected, serverVars, ecflow_client, connPc, notifications, modals,
                   refresh, appCrashed, calls, ops>>

load_children_worker(w) ==
    \/ load_children_worker_start(w)
    \/ load_children_worker_add(w)

\* ------------------------------------------ search (sidebar.py 338-409)
\* str.lower() on the characters the paths and queries are written with.
Lower(c) == CASE c = "S" -> "s" [] c = "F" -> "f" [] c = "T" -> "t" [] OTHER -> c
LowerSeq(cs) == [k \in 1..Len(cs) |-> Lower(cs[k])]

\* Python's `sub in text` for strings.
Contains(sub, text) ==
    \E k \in 0..(Len(text) - Len(sub)) : SubSeq(text, k + 1, k + Len(sub)) = sub

\* all_paths.index(current_path) + 1 when the cursor's payload is in the list, else 0.
StartIndex(all_paths, current_path) ==
    IF current_path # "None" /\ \E k \in 1..Len(all_paths) : all_paths[k] = current_path
    THEN (CHOOSE k \in 1..Len(all_paths) :
              /\ all_paths[k] = current_path
              /\ \A j \in 1..(k - 1) : all_paths[j] # current_path)
    ELSE 0

\* The scan that stops at the end of the list instead of wrapping.
scan_no_wrap(all_paths, start_index, query) ==
    LET n == Len(all_paths)
        hits == {i \in start_index..(n - 1) : Contains(query, LowerSeq(Chars(all_paths[i + 1])))}
    IN IF hits = {} THEN "None"
       ELSE all_paths[(CHOOSE i \in hits : \A j \in hits : i <= j) + 1]

\* The loop of _find_and_select_logic over range(len(all_paths)), query already
\* lowered: the first path, from start_index on and wrapping, that contains it.
scan(all_paths, start_index, query) ==
    LET n == Len(all_paths)
        At(i) == all_paths[((start_index + i) % n) + 1]
        hits == {i \in 0..(n - 1) : Contains(query, LowerSeq(Chars(At(i))))}
    IN IF hits = {} THEN "None"
       ELSE At(CHOOSE i \in hits : \A j \in hits : i <= j)

\* path.strip("/")
RECURSIVE StripSlashes(_)
StripSlashes(cs) ==
    IF cs # <<>> /\ Head(cs) = "/" THEN StripSlashes(Tail(cs))
    ELSE IF cs # <<>> /\ cs[Len(cs)] = "/" THEN StripSlashes(SubSeq(cs, 1, Len(cs) - 1))
    ELSE cs

\* text.split("/")
RECURSIVE Split(_)
Split(cs) ==
    IF \E k \in 1..Len(cs) : cs[k] = "/"
    THEN LET k == CHOOSE k \in 1..Len(cs) : cs[k] = "/" /\ \A j \in 1..(k - 1) : cs[j] # "/"
         IN <<SubSeq(cs, 1, k - 1)>> \o Split(SubSeq(cs, k + 1, Len(cs)))
    ELSE <<cs>>

\* The successive values of current_path in _select_by_path_logic: "/" + part
\* appended for each part of the path.
PathSteps(path) ==
    LET parts == Split(StripSlashes(Chars(path)))
        F[k \in 0..Len(parts)] == IF k = 0 THEN <<>> ELSE F[k - 1] \o <<"/">> \o parts[k]
    IN [k \in 1..Len(parts) |-> F[k]]

\* The string of a sequence of characters.
Text(cs) ==
    LET F[k \in 0..Len(cs)] == IF k = 0 THEN "" ELSE F[k - 1] \o cs[k]
    IN F[Len(cs)]

\* The queries typed into the search box.
Queries == {<<"s">>, <<"T">>, <<"2">>, <<"x">>}

\* Ectop.on_input_submitted / on_input_changed with a non-empty query:
\* tree.find_and_select(query) starts the worker thread.  It is exclusive, which
\* marks an earlier search still running as cancelled; no code reads the mark.
find_and_select(query) ==
    /\ ~appCrashed
    /\ workers' = workers (+) SetToBag({[Worker("find", "start", "None", "None")
                                            EXCEPT !.query = query]})
    /\ ops' = ops + 1
    /\ UNCHANGED <<unitVars, contentVars, statusVars, treeVars, selected, serverVars, ecflow_client,
                   connPc, notifications, modals, refresh, appCrashed, calls>>

\* _find_and_select_logic: `if not self.defs: return`, and the test of the
\* cache: absent, the worker walks self.defs.  (query = query.lower() is applied
\* where the query is used.)
find_and_select_logic_start(w) ==
    /\ ~appCrashed
    /\ w \in InFlight("find", "start")
    /\ workers' = IF treeDefs = NoDefs THEN Remove(workers, w)
                  ELSE IF ~treeCache.present
                  THEN Replace(workers, w, [w EXCEPT !.pc = "assign", !.val = AllPaths(treeDefs)])
                  ELSE Replace(workers, w, [w EXCEPT !.pc = "scan"])
    /\ UNCHANGED <<unitVars, contentVars, statusVars, treeVars, selected, serverVars, ecflow_client,
                   connPc, notifications, modals, refresh, appCrashed, calls, ops>>

\* _find_and_select_logic: self._all_paths_cache = paths
find_and_select_logic_assign(w) ==
    /\ ~appCrashed
    /\ w \in InFlight("find", "assign")
    /\ treeCache' = [present |-> TRUE, paths |-> w.val]
    /\ workers' = Replace(workers, w, [w EXCEPT !.pc = "scan", !.val = <<>>])
    /\ UNCHANGED <<unitVars, contentVars, statusVars, treeDefs, treeRows, rootLabel, current_filter,
                   selected, serverVars, ecflow_client, connPc, notifications, modals,
                   refresh, appCrashed, calls, ops>>

\* _find_and_select_logic: all_paths = self._all_paths_cache, the cursor is
\* read and the list is scanned.  A cache that update_tree has set to None since
\* the test makes `current_path in all_paths` or len(all_paths) raise TypeError,
\* which nothing catches.  With a match the walk of _select_by_path_logic begins
\* at self.root.
find_and_select_logic_scan(w) ==
    /\ w \in InFlight("find", "scan")
    /\ ~appCrashed
    /\ IF ~treeCache.present
       THEN /\ workers' = Replace(workers, w, [w EXCEPT !.pc = "raised"])
            /\ appCrashed' = TRUE
       ELSE LET found == scan(treeCache.paths, StartIndex(treeCache.paths, selected),
                                 LowerSeq(w.query))
                w2 == [w EXCEPT !.path = found, !.arg = selected, !.old = treeCache.paths]
            IN /\ workers' = Replace(workers, w,
                                 IF found = "None" THEN [w2 EXCEPT !.pc = "warn"]
                                 ELSE [w2 EXCEPT !.pc = "check", !.node = 0,
                                                 !.val = PathSteps(found)])
               /\ UNCHANGED appCrashed
    /\ UNCHANGED <<unitVars, contentVars, statusVars, treeVars, selected, serverVars, ecflow_client,
                   connPc, notifications, modals, refresh, calls, ops>>

\* _find_and_select_logic: notify(f"No match found for '{query}'", severity="warning"),
\* query being the lowered one.
find_and_select_logic_warn(w) ==
    /\ ~appCrashed
    /\ w \in InFlight("find", "warn")
    /\ notifications' = Notify(notifications, <<"No match found", Text(LowerSeq(w.query)), "warning">>)
    /\ workers' = Replace(workers, w, [w EXCEPT !.pc = "warned"])
    /\ UNCHANGED <<unitVars, contentVars, statusVars, treeVars, selected, serverVars, ecflow_client,
                   connPc, modals, refresh, appCrashed, calls, ops>>

\* ---------------------------- select by path (sidebar.py 269-307, 461-522)
\* _load_children(current_ui_node, sync=True), its tests, read in the worker
\* thread: the root has no payload and is not loaded; a row is loaded when the
\* placeholder is its only child.
load_children_sync_check(w) ==
    /\ ~appCrashed
    /\ w \in InFlight("find", "check")
    /\ ~w.stale
    /\ workers' = Replace(workers, w,
                     IF w.node # 0 /\ treeDefs # NoDefs /\ OnlyPlaceholder(treeRows, w.node)
                     THEN [w EXCEPT !.pc = "remove"] ELSE [w EXCEPT !.pc = "expand"])
    /\ UNCHANGED <<unitVars, contentVars, statusVars, treeVars, selected, serverVars, ecflow_client,
                   connPc, notifications, modals, refresh, appCrashed, calls, ops>>

\* What TreeNode.remove() does to a placeholder that is no longer in the tree:
\* Textual's list bookkeeping raises, or the call changes nothing.
RemoveTwice == {"raises", "nothing"}

\* _load_children, sync: self._safe_call(placeholder.remove) on the UI thread,
\* then the node is looked up in self.defs and the iteration over its children
\* begins.
load_children_sync_remove(w) ==
    /\ ~appCrashed
    /\ w \in InFlight("find", "remove")
    /\ ~w.stale
    /\ \E twice \in RemoveTwice :
         LET gone == ~treeRows[w.node].ph
             kids == IF treeDefs # NoDefs
                        /\ find_abs_node(treeDefs, treeRows[w.node].data) # "None"
                        /\ IsContainer(treeRows[w.node].data)
                     THEN ChildrenOf(treeDefs, treeRows[w.node].data) ELSE <<>>
         IN IF gone /\ twice = "raises"
            THEN /\ workers' = Replace(workers, w, [w EXCEPT !.pc = "raised"])
                 /\ appCrashed' = TRUE
                 /\ UNCHANGED treeRows
            ELSE /\ treeRows' = SetRow(treeRows, w.node, "ph", FALSE)
                 /\ workers' = Replace(workers, w,
                                  [w EXCEPT !.pc = IF kids = <<>> THEN "expand" ELSE "add",
                                            !.defs = treeDefs, !.out = kids])
                 /\ UNCHANGED appCrashed
    /\ UNCHANGED <<unitVars, contentVars, statusVars, treeDefs, treeCache, rootLabel, current_filter,
                   selected, serverVars, ecflow_client, connPc, notifications, modals,
                   refresh, calls, ops>>

\* _load_children, sync, one iteration: self._safe_call(self._add_node_to_ui,
\* ui_node, child) for the next child, whatever the filter.
load_children_sync_add(w) ==
    /\ ~appCrashed
    /\ w \in InFlight("find", "add")
    /\ ~w.stale
    /\ treeRows' = Append(treeRows, add_node_to_ui(w.node, Head(w.out), w.defs))
    /\ workers' = Replace(workers, w,
                     [w EXCEPT !.out = Tail(w.out),
                               !.pc = IF Tail(w.out) = <<>> THEN "expand" ELSE "add"])
    /\ UNCHANGED <<unitVars, contentVars, statusVars, treeDefs, treeCache, rootLabel, current_filter,
                   selected, serverVars, ecflow_client, connPc, notifications, modals,
                   refresh, appCrashed, calls, ops>>

\* The first row under row i whose payload reads as the characters cs, 0 when none.
ChildWith(rows, i, cs) ==
    LET kids == KidsOf(rows, i)
        hits == {k \in 1..Len(kids) : Chars(rows[kids[k]].data) = cs}
    IN IF hits = {} THEN 0 ELSE kids[CHOOSE k \in hits : \A j \in hits : k <= j]

\* _select_by_path_logic: self._safe_call(current_ui_node.expand), whose
\* NodeExpanded event runs on_tree_node_expanded, and the search of the row's
\* children for current_path: found, the walk descends or, at the last part,
\* goes on to select; not found, the worker returns.
select_by_path_logic_expand(w) ==
    /\ ~appCrashed
    /\ w \in InFlight("find", "expand")
    /\ ~w.stale
    /\ LET opened == IF w.node = 0 THEN treeRows ELSE SetRow(treeRows, w.node, "open", TRUE)
           r == IF w.node = 0 THEN [rows |-> opened, started |-> EmptyBag]
                ELSE load_children_async(opened, w.node)
           child == ChildWith(r.rows, w.node, Head(w.val))
       IN /\ treeRows' = r.rows
          /\ workers' = Replace(workers, w,
                           IF child = 0 THEN [w EXCEPT !.pc = "returned"]
                           ELSE [w EXCEPT !.node = child, !.val = Tail(w.val),
                                          !.pc = IF Tail(w.val) = <<>> THEN "select"
                                                 ELSE "check"])
                        (+) r.started
    /\ UNCHANGED <<unitVars, contentVars, statusVars, treeDefs, treeCache, rootLabel, current_filter,
                   selected, serverVars, ecflow_client, connPc, notifications, modals,
                   refresh, appCrashed, calls, ops>>

\* The rows above row i.
RECURSIVE Ancestors(_, _)
Ancestors(rows, i) ==
    IF rows[i].parent = 0 THEN {} ELSE {rows[i].parent} \cup Ancestors(rows, rows[i].parent)

\* SuiteTree._select_and_reveal(node), on the UI thread: the cursor goes to the
\* row and every row above it is expanded.  select_node posts NodeSelected, on
\* which Ectop.on_tree_node_selected calls action_load_node.
select_and_reveal(w) ==
    /\ ~appCrashed
    /\ w \in InFlight("find", "select")
    /\ ~w.stale
    /\ selected' = treeRows[w.node].data
    /\ treeRows' = [j \in 1..Len(treeRows) |->
                      IF j \in Ancestors(treeRows, w.node)
                      THEN [treeRows[j] EXCEPT !.open = TRUE] ELSE treeRows[j]]
    /\ workers' = Replace(workers, w, [w EXCEPT !.pc = "selected"])
                    (+) (IF ecflow_client = "None" THEN EmptyBag
                         ELSE SetToBag({Worker("load", "notify", treeRows[w.node].data, "")}))
    /\ UNCHANGED <<unitVars, contentVars, statusVars, treeDefs, treeCache, rootLabel, current_filter,
                   serverVars, ecflow_client, connPc, notifications, modals, refresh,
                   appCrashed, calls, ops>>

\* The walk of a worker whose rows a Tree.clear() has detached: it goes on in
\* the dropped rows, where it either misses a part and returns or reaches
\* select_node with a row that is in no tree, which leaves the cursor wherever
\* the row's old line number falls.
select_by_path_logic_detached(w) ==
    /\ ~appCrashed
    /\ w \in BagToSet(workers)
    /\ w.kind = "find" /\ w.stale /\ w.pc \in {"check", "remove", "add", "expand", "select"}
    /\ \/ UNCHANGED selected
       \/ \E i \in 1..Len(treeRows) : selected' = treeRows[i].data
       \/ selected' = "None"
    /\ workers' = Replace(workers, w, [w EXCEPT !.pc = "returned"])
    /\ UNCHANGED <<unitVars, contentVars, statusVars, treeVars, serverVars, ecflow_client, connPc,
                   notifications, modals, refresh, appCrashed, calls, ops>>

find_and_select_worker(w) ==
    \/ find_and_select_logic_start(w)
    \/ find_and_select_logic_assign(w)
    \/ find_and_select_logic_scan(w)
    \/ find_and_select_logic_warn(w)
    \/ load_children_sync_check(w)
    \/ load_children_sync_remove(w)
    \/ load_children_sync_add(w)
    \/ select_by_path_logic_expand(w)
    \/ select_and_reveal(w)

\* ------------------------------- SpecLazy: expansions and searches in one tree
\* A connected session under any starting filter: the tree has just been built
\* from the two-suite snapshot, nothing is expanded, the cursor is on the root
\* or on a row, and the background cache builder has yet to run.
InitLazy ==
    /\ log_output = <<>>
    /\ last_log_size = 0
    /\ is_live = FALSE
    /\ active = "tab_output"
    /\ view_script = Shown("empty", <<>>)
    /\ view_job = Shown("empty", <<>>)
    /\ ecflow_client = "Client"
    /\ connPc = "done"
    /\ notifications = EmptyBag
    /\ modals = <<>>
    /\ refresh = <<>>
    /\ workers = SetToBag({Worker("cache", "read", "None", "")})
    /\ appCrashed = FALSE
    /\ treeDefs = Snapshot(2)
    /\ clientDefs = treeDefs
    /\ srvDefs = treeDefs
    /\ treeCache = NoCache
    /\ current_filter \in StartFilters
    /\ treeRows = TopLevel(treeDefs, current_filter)
    /\ rootLabel = FilterLabel("host:port", current_filter)
    /\ selected \in {"None"} \cup {treeRows[i].data : i \in 1..Len(treeRows)}
    /\ sbStatus = treeDefs.state
    /\ sbInfo = "host:port"
    /\ sbVersion = "Unknown"
    /\ jobout = <<>>
    /\ logCalls = <<>>
    /\ calls = EmptyBag
    /\ ops = 0
    /\ TweakerClosed

ExpandKey == ops < MaxTreeKeys /\ \E i \in 1..Len(treeRows) : on_tree_node_expanded(i)
SearchKey == ops < MaxTreeKeys /\ \E q \in Queries : find_and_select(q)

NextLazy ==
    \/ ExpandKey
    \/ SearchKey
    \/ \E w \in BagToSet(workers) : load_children_worker(w)
    \/ \E w \in BagToSet(workers) : find_and_select_worker(w)
    \/ \E w \in BagToSet(workers) : build_all_paths_cache_worker_read(w)
    \/ \E w \in BagToSet(workers) : build_all_paths_cache_worker_assign(w)

SpecLazy == InitLazy /\ [][NextLazy]_vars

\* --------------------- SpecRebuild: refreshes, filter cycling and searches
\* From a connected session with a loaded tree, the user refreshes, cycles the
\* filter and searches, in any order, while the workers these start run.
RebuildKey ==
    /\ ops < MaxRebuildKeys
    /\ \/ UserRefresh
       \/ action_cycle_filter
       \/ \E q \in Queries : find_and_select(q)

NextRebuild ==
    \/ RebuildKey
    \/ \E i \in DOMAIN refresh : refresh_worker(i)
    \/ tree_workers
    \/ \E w \in BagToSet(workers) : find_and_select_worker(w)
    \/ \E w \in BagToSet(workers) : select_by_path_logic_detached(w)

SpecRebuild == InitSession /\ [][NextRebuild]_vars

\* --------------------------------------------------- VariableTweaker
\* A worker thread of the VariableTweaker: value is the submitted text, node
\* the variables of the node refresh_vars found and of its parents, rows the
\* rows it computed from them, key the name or row key the thread works on,
\* msg the notification it is about to post, pressed the key of the row under
\* the cursor when the user pressed "d" ("None": no row), mode the value of
\* selected_var_name when the text was submitted.
TweakWorker(kind, pc) ==
    [kind |-> kind, pc |-> pc, value |-> <<>>, node |-> NoVariables, rows |-> <<>>,
     key |-> "None", msg |-> "None", pressed |-> "None", mode |-> "None"]

TweakInFlight(kind, pc) ==
    {w \in BagToSet(tweakWorkers) : w.kind = kind /\ w.pc = pc}

\* What a VariableTweaker step leaves alone in the rest of the app.
TweakerOnly ==
    UNCHANGED <<contentVars, statusVars, treeVars, selected, srvDefs, jobout, ecflow_client,
                connPc, modals, refresh, workers, whyVars, wrapperVars, cliVars,
                confirmVars, extVars>>

\* f"inh_{name}" and row_key.startswith("inh_") on the keys of the table.
InheritedKey(name) == "inh_" \o name
startswith_inh(key) == \E n \in VarNameSet : key = InheritedKey(n)

Row(name, value, type, key) == [name |-> name, value |-> value, type |-> type, key |-> key]

\* The rows of the node's own variables and of its generated variables.
user_rows(sv) ==
    LET vs == variables(sv, node_path)
    IN [k \in 1..Len(vs) |-> Row(vs[k].name, vs[k].value, "User", vs[k].name)]

generated_rows ==
    LET vs == generated_variables(node_path)
    IN [k \in 1..Len(vs) |-> Row(vs[k].name, vs[k].value, "Generated", vs[k].name)]

NamesOf(rows) == {rows[k].name : k \in 1..Len(rows)}

\* The climb through the parents: a parent's variable gets a row unless its
\* name was seen at the node or at a nearer parent.
RECURSIVE inherited_rows(_, _, _)
inherited_rows(sv, parents, seen) ==
    IF parents = <<>> THEN <<>>
    ELSE LET p == Head(parents)
             vs == variables(sv, p)
             new == SelectSeq(vs, LAMBDA v : v.name \notin seen)
             rows == [k \in 1..Len(new) |->
                        Row(new[k].name, new[k].value, "Inherited (" \o NameOf(p) \o ")",
                            InheritedKey(new[k].name))]
         IN rows \o inherited_rows(sv, Tail(parents), seen \cup NamesOf(rows))

\* The rows list refresh_vars builds from the node it found.
refresh_rows(sv) ==
    LET own == user_rows(sv) \o generated_rows
    IN own \o inherited_rows(sv, ParentsOf(node_path), NamesOf(own))

\* DataTable.add_row(..., key=row[3]) for each row in turn; add_row raises
\* DuplicateKey for a key the table already holds and the loop ends there.
RECURSIVE add_rows(_, _)
add_rows(table, rows) ==
    IF rows = <<>> THEN [table |-> table, raised |-> FALSE]
    ELSE IF \E k \in 1..Len(table) : table[k].key = Head(rows).key
         THEN [table |-> table, raised |-> TRUE]
         ELSE add_rows(Append(table, Head(rows)), Tail(rows))

\* VariableTweaker._update_table(rows): clear, then the add_row loop.
update_table(rows) == add_rows(<<>>, rows)

\* VariableTweaker.refresh_vars(): a new worker thread.
refresh_vars(pool) == pool (+) SetToBag({TweakWorker("refresh_vars", "sync_local")})

TweakerOpen == \E k \in 1..Len(modals) : modals[k].screen = "VariableTweaker"

\* Ectop.action_variables on node_path, then VariableTweaker.on_mount: the
\* screen is pushed, the table is empty, the first refresh starts and the
\* input is hidden.
on_mount ==
    /\ ~appCrashed
    /\ ~TweakerOpen
    /\ ecflow_client # "None"
    /\ modals' = Append(modals, Screen("VariableTweaker", node_path))
    /\ var_table' = <<>>
    /\ cursor_row' = 0
    /\ selected_var_name' = "None"
    /\ input_hidden' = TRUE
    /\ tweakWorkers' = refresh_vars(tweakWorkers)
    /\ UNCHANGED <<contentVars, statusVars, treeVars, selected, serverVars, ecflow_client,
                   connPc, notifications, refresh, workers, appCrashed, calls, ops,
                   srvVariables, whyVars, wrapperVars, cliVars, confirmVars, extVars>>

\* refresh_vars, lines 95-127: sync_local, get_defs, find_abs_node and the
\* rows of the node found ("Node not found" when there is none).  The node's
\* variables are those of the definitions the sync brought.
refresh_vars_fetch(w) ==
    /\ w \in TweakInFlight("refresh_vars", "sync_local")
    /\ calls' = Called("sync_local", "", "")
    /\ \E out \in Outcomes :
         IF out # "ok"
         THEN /\ tweakWorkers' = Replace(tweakWorkers, w, [w EXCEPT !.pc = "except"])
              /\ UNCHANGED <<clientDefs, notifications>>
         ELSE /\ clientDefs' = srvDefs
              /\ IF srvDefs = NoDefs
                 THEN /\ tweakWorkers' = Remove(tweakWorkers, w)
                      /\ UNCHANGED notifications
                 ELSE IF find_abs_node(srvDefs, node_path) = "None"
                 THEN /\ tweakWorkers' = Remove(tweakWorkers, w)
                      /\ notifications' =
                           Notify(notifications, <<"Node not found", "", "error">>)
                 ELSE /\ tweakWorkers' = Replace(tweakWorkers, w,
                                            [w EXCEPT !.pc = "update",
                                                      !.node = srvVariables,
                                                      !.rows = refresh_rows(srvVariables)])
                      /\ UNCHANGED notifications
    /\ TweakerOnly
    /\ UNCHANGED <<appCrashed, ops, var_table, cursor_row, selected_var_name,
                   input_hidden, srvVariables>>

\* refresh_vars, line 129: _update_table on the UI thread.  DataTable.clear
\* puts the cursor on row 0; a DuplicateKey comes back to the thread through
\* call_from_thread and is caught at line 131.
refresh_vars_update(w) ==
    /\ w \in TweakInFlight("refresh_vars", "update")
    /\ ~appCrashed
    /\ LET r == update_table(w.rows) IN
         /\ var_table' = r.table
         /\ cursor_row' = 0
         /\ tweakWorkers' = IF r.raised
                            THEN Replace(tweakWorkers, w, [w EXCEPT !.pc = "except"])
                            ELSE Remove(tweakWorkers, w)
    /\ TweakerOnly
    /\ UNCHANGED <<clientDefs, notifications, appCrashed, calls, ops, selected_var_name,
                   input_hidden, srvVariables>>

\* refresh_vars, lines 131-132
refresh_vars_except(w) ==
    /\ w \in TweakInFlight("refresh_vars", "except")
    /\ notifications' = Notify(notifications, <<"Error fetching variables", "", "error">>)
    /\ tweakWorkers' = Remove(tweakWorkers, w)
    /\ TweakerOnly
    /\ UNCHANGED <<clientDefs, appCrashed, calls, ops, var_table, cursor_row,
                   selected_var_name, input_hidden, srvVariables>>

refresh_vars_worker(w) ==
    \/ refresh_vars_fetch(w)
    \/ refresh_vars_update(w)
    \/ refresh_vars_except(w)

\* The user moves the table's cursor to another row.
TableCursorMoves ==
    /\ ~appCrashed
    /\ TweakerOpen
    /\ \E r \in 0..(Len(var_table) - 1) : r # cursor_row /\ cursor_row' = r
    /\ TweakerOnly
    /\ UNCHANGED <<clientDefs, notifications, appCrashed, calls, ops, var_table,
                   selected_var_name, input_hidden, tweakWorkers, srvVariables>>

\* VariableTweaker.on_data_table_row_selected, for the event's row key.
row_selected(row_key) ==
    IF startswith_inh(row_key)
    THEN /\ notifications' =
              Notify(notifications, <<"Cannot edit inherited variables directly", "", "warning">>)
         /\ UNCHANGED <<selected_var_name, input_hidden>>
    ELSE /\ selected_var_name' = row_key
         /\ input_hidden' = FALSE
         /\ UNCHANGED notifications

\* The user selects the row under the cursor (Enter).
on_data_table_row_selected ==
    /\ ~appCrashed
    /\ TweakerOpen
    /\ var_table # <<>>
    /\ row_selected(var_table[cursor_row + 1].key)
    /\ TweakerOnly
    /\ UNCHANGED <<clientDefs, appCrashed, calls, ops, var_table, cursor_row, tweakWorkers,
                   srvVariables>>

\* VariableTweaker.action_add_variable
action_add_variable ==
    /\ ~appCrashed
    /\ TweakerOpen
    /\ input_hidden' = FALSE
    /\ selected_var_name' = "None"
    /\ TweakerOnly
    /\ UNCHANGED <<clientDefs, notifications, appCrashed, calls, ops, var_table, cursor_row,
                   tweakWorkers, srvVariables>>

\* What the user types into #var_input, as the pieces of the text.
Typed == {<<"2">>, <<"A", " ", "=", " ", "2">>, <<"TASK", "=", "2">>}

\* str.strip() on the pieces of a text.
RECURSIVE Strip(_)
Strip(cs) ==
    IF cs = <<>> THEN <<>>
    ELSE IF Head(cs) = " " THEN Strip(Tail(cs))
    ELSE IF cs[Len(cs)] = " " THEN Strip(SubSeq(cs, 1, Len(cs) - 1))
    ELSE cs

\* "=" in value, and name.strip(), val.strip() of value.split("=", 1)
HasEq(value) == \E k \in 1..Len(value) : value[k] = "="
EqAt(value) == CHOOSE k \in 1..Len(value) : value[k] = "=" /\ \A j \in 1..(k - 1) : value[j] # "="
SplitName(value) == Text(Strip(SubSeq(value, 1, EqAt(value) - 1)))
SplitVal(value) == Text(Strip(SubSeq(value, EqAt(value) + 1, Len(value))))

\* VariableTweaker.on_input_submitted: the event starts a worker thread.
on_input_submitted ==
    /\ ~appCrashed
    /\ TweakerOpen
    /\ ~input_hidden
    /\ ops < MaxVarKeys
    /\ ops' = ops + 1
    /\ \E value \in Typed :
         tweakWorkers' = tweakWorkers (+)
             SetToBag({[TweakWorker("submit", "alter") EXCEPT !.value = value,
                                                              !.mode = selected_var_name]})
    /\ TweakerOnly
    /\ UNCHANGED <<clientDefs, notifications, appCrashed, calls, var_table, cursor_row,
                   selected_var_name, input_hidden, srvVariables>>

\* EcflowClient.alter(node_path, "add_variable", name, value) on the server.
add_variable(sv, name, value) == [sv EXCEPT ![node_path][name] = value]

\* on_input_submitted, lines 180-191: the thread reads selected_var_name and
\* makes its call.
input_submitted_alter(w) ==
    /\ w \in TweakInFlight("submit", "alter")
    /\ IF selected_var_name # "None"
       THEN \E out \in Outcomes :
              /\ calls' = Called("alter", node_path,
                                 "add_variable " \o selected_var_name \o " " \o Text(w.value))
              /\ srvVariables' = IF out = "ok"
                                 THEN add_variable(srvVariables, selected_var_name, Text(w.value))
                                 ELSE srvVariables
              /\ tweakWorkers' = Replace(tweakWorkers, w,
                    IF out = "ok" THEN [w EXCEPT !.pc = "notify", !.msg = "Updated",
                                                 !.key = selected_var_name]
                    ELSE [w EXCEPT !.pc = "except"])
       ELSE IF HasEq(w.value)
       THEN \E out \in Outcomes :
              /\ calls' = Called("alter", node_path,
                                 "add_variable " \o SplitName(w.value) \o " " \o SplitVal(w.value))
              /\ srvVariables' = IF out = "ok"
                                 THEN add_variable(srvVariables, SplitName(w.value),
                                                   SplitVal(w.value))
                                 ELSE srvVariables
              /\ tweakWorkers' = Replace(tweakWorkers, w,
                    IF out = "ok" THEN [w EXCEPT !.pc = "notify", !.msg = "Added",
                                                 !.key = SplitName(w.value)]
                    ELSE [w EXCEPT !.pc = "except"])
       ELSE /\ tweakWorkers' = Replace(tweakWorkers, w, [w EXCEPT !.pc = "warn"])
            /\ UNCHANGED <<calls, srvVariables>>
    /\ TweakerOnly
    /\ UNCHANGED <<clientDefs, notifications, appCrashed, ops, var_table, cursor_row,
                   selected_var_name, input_hidden>>

\* on_input_submitted, lines 183 and 189: "Updated <name>" or "Added <name>"
input_submitted_notify(w) ==
    /\ w \in TweakInFlight("submit", "notify")
    /\ notifications' = Notify(notifications, <<w.msg, w.key, "information">>)
    /\ tweakWorkers' = Replace(tweakWorkers, w, [w EXCEPT !.pc = "reset"])
    /\ TweakerOnly
    /\ UNCHANGED <<clientDefs, appCrashed, calls, ops, var_table, cursor_row,
                   selected_var_name, input_hidden, srvVariables>>

\* on_input_submitted, lines 191-192
input_submitted_warn(w) ==
    /\ w \in TweakInFlight("submit", "warn")
    /\ notifications' = Notify(notifications, <<"Use name=value format to add", "", "warning">>)
    /\ tweakWorkers' = Remove(tweakWorkers, w)
    /\ TweakerOnly
    /\ UNCHANGED <<clientDefs, appCrashed, calls, ops, var_table, cursor_row,
                   selected_var_name, input_hidden, srvVariables>>

\* on_input_submitted, lines 194-195: _reset_input hides the input, then
\* refresh_vars starts a thread.
input_submitted_reset(w) ==
    /\ w \in TweakInFlight("submit", "reset")
    /\ ~appCrashed
    /\ input_hidden' = TRUE
    /\ tweakWorkers' = refresh_vars(Remove(tweakWorkers, w))
    /\ TweakerOnly
    /\ UNCHANGED <<clientDefs, notifications, appCrashed, calls, ops, var_table, cursor_row,
                   selected_var_name, srvVariables>>

\* on_input_submitted, lines 196-197, and action_delete_variable, 238-239
tweak_except(w) ==
    /\ w \in TweakInFlight("submit", "except") \cup TweakInFlight("delete", "except")
    /\ notifications' = Notify(notifications, <<"Error", "", "error">>)
    /\ tweakWorkers' = Remove(tweakWorkers, w)
    /\ TweakerOnly
    /\ UNCHANGED <<clientDefs, appCrashed, calls, ops, var_table, cursor_row,
                   selected_var_name, input_hidden, srvVariables>>

input_submitted_worker(w) ==
    \/ input_submitted_alter(w)
    \/ input_submitted_notify(w)
    \/ input_submitted_warn(w)
    \/ input_submitted_reset(w)

\* The user presses "d": VariableTweaker.action_delete_variable starts a
\* worker thread.
action_delete_variable ==
    /\ ~appCrashed
    /\ TweakerOpen
    /\ ops < MaxVarKeys
    /\ ops' = ops + 1
    /\ tweakWorkers' = tweakWorkers (+)
         SetToBag({[TweakWorker("delete", "read") EXCEPT
                       !.pressed = IF var_table = <<>> THEN "None"
                                   ELSE var_table[cursor_row + 1].key]})
    /\ TweakerOnly
    /\ UNCHANGED <<clientDefs, notifications, appCrashed, calls, var_table, cursor_row,
                   selected_var_name, input_hidden, srvVariables>>

\* action_delete_variable, lines 224-232: the thread reads the table's cursor
\* row and its row keys.  row_keys[row_index] of an empty table is an
\* IndexError outside the try.
delete_variable_read(w) ==
    /\ w \in TweakInFlight("delete", "read")
    /\ IF var_table = <<>>
       THEN /\ tweakWorkers' = Replace(tweakWorkers, w, [w EXCEPT !.pc = "raised"])
            /\ appCrashed' = TRUE
       ELSE /\ LET row_key == var_table[cursor_row + 1].key IN
                 tweakWorkers' = Replace(tweakWorkers, w,
                     [w EXCEPT !.key = row_key,
                               !.pc = IF startswith_inh(row_key) THEN "reject" ELSE "alter"])
            /\ UNCHANGED appCrashed
    /\ TweakerOnly
    /\ UNCHANGED <<clientDefs, notifications, calls, ops, var_table, cursor_row,
                   selected_var_name, input_hidden, srvVariables>>

\* action_delete_variable, lines 230-231
delete_variable_reject(w) ==
    /\ w \in TweakInFlight("delete", "reject")
    /\ notifications' = Notify(notifications, <<"Cannot delete inherited variables", "", "error">>)
    /\ tweakWorkers' = Remove(tweakWorkers, w)
    /\ TweakerOnly
    /\ UNCHANGED <<clientDefs, appCrashed, calls, ops, var_table, cursor_row,
                   selected_var_name, input_hidden, srvVariables>>

\* action_delete_variable, lines 234-235: the server deletes the node's user
\* variable of that name and raises when the node has none.
delete_variable_alter(w) ==
    /\ w \in TweakInFlight("delete", "alter")
    /\ calls' = Called("alter", node_path, "delete_variable " \o w.key)
    /\ \E out \in Outcomes :
         IF out = "ok" /\ srvVariables[node_path][w.key] # "None"
         THEN /\ srvVariables' = [srvVariables EXCEPT ![node_path][w.key] = "None"]
              /\ tweakWorkers' = Replace(tweakWorkers, w, [w EXCEPT !.pc = "notify"])
         ELSE /\ tweakWorkers' = Replace(tweakWorkers, w, [w EXCEPT !.pc = "except"])
              /\ UNCHANGED srvVariables
    /\ TweakerOnly
    /\ UNCHANGED <<clientDefs, notifications, appCrashed, ops, var_table, cursor_row,
                   selected_var_name, input_hidden>>

\* action_delete_variable, lines 236-237: "Deleted <key>", then refresh_vars.
delete_variable_notify(w) ==
    /\ w \in TweakInFlight("delete", "notify")
    /\ notifications' = Notify(notifications, <<"Deleted", w.key, "information">>)
    /\ tweakWorkers' = refresh_vars(Remove(tweakWorkers, w))
    /\ TweakerOnly
    /\ UNCHANGED <<clientDefs, appCrashed, calls, ops, var_table, cursor_row,
                   selected_var_name, input_hidden, srvVariables>>

delete_variable_worker(w) ==
    \/ delete_variable_read(w)
    \/ delete_variable_reject(w)
    \/ delete_variable_alter(w)
    \/ delete_variable_notify(w)

\* ----------------------------------- SpecVars: a VariableTweaker on a task
\* The user variables the nodes start with: the task's own A, its family's A
\* and its suite's A, each absent or with a value that tells the levels apart.
StartVariables ==
    {sv \in [DOMAIN NoVariables -> [VarNameSet -> {"None", "1", "f", "s"}]] :
        /\ sv[node_path]["A"] \in {"None", "1"}
        /\ sv["/s1/f"]["A"] \in {"None", "f"}
        /\ sv["/s1"]["A"] \in {"None", "s"}
        /\ \A p \in DOMAIN NoVariables : sv[p]["TASK"] = "None" /\ sv[p]["inh_A"] = "None"}

\* A session showing a snapshot that holds the task; no screen is open yet.
InitVars ==
    /\ SessionApp(<<>>)
    /\ treeDefs = Snapshot(1)
    /\ selected = "None"
    /\ srvDefs = clientDefs
    /\ TweakerUnmounted
    /\ srvVariables \in StartVariables
    /\ UnitsIdle

TweakerKey ==
    \/ on_mount
    \/ TableCursorMoves
    \/ on_data_table_row_selected
    \/ action_add_variable
    \/ on_input_submitted
    \/ action_delete_variable

NextVars ==
    \/ TweakerKey
    \/ \E w \in BagToSet(tweakWorkers) : refresh_vars_worker(w)
    \/ \E w \in BagToSet(tweakWorkers) : input_submitted_worker(w)
    \/ \E w \in BagToSet(tweakWorkers) : delete_variable_worker(w)
    \/ \E w \in BagToSet(tweakWorkers) : tweak_except(w)

SpecVars == InitVars /\ [][NextVars]_vars

\* ------------------------------------------------------- WhyInspector
\* A text is the sequence of its pieces: "(", ")", " ", "/", "-", ".", an
\* operator, or a run of word characters ([a-zA-Z0-9_]+).
CompareOps == {"==", "!=", "<=", ">=", "<", ">"}
IsWord(p) == p \notin ({"/", "-", ".", " ", "(", ")"} \cup CompareOps)

ICON_MET == "[met]"
ICON_NOT_MET == "[not met]"
ICON_UNKNOWN == "[unknown]"
ICON_NOTE == "[note]"
EXPR_OR_LABEL == "OR (Any must be true)"
EXPR_AND_LABEL == "AND (All must be true)"

\* parent_ui_node.add(label, data=...): the node added, with what is added
\* under it.
UiNode(label, data, kids) == [label |-> label, data |-> data, kids |-> kids]

\* The value of depth after the characters before position i.
Depth(cs, i) ==
    LET F[k \in 0..Len(cs)] ==
            IF k = 0 THEN 0
            ELSE F[k - 1] + (IF cs[k] = "(" THEN 1 ELSE IF cs[k] = ")" THEN -1 ELSE 0)
    IN F[i - 1]

\* is_pair: the depth does not come back to 0 before the last character.
is_pair(cs) == \A i \in 1..(Len(cs) - 1) : Depth(cs, i + 1) # 0

\* The loop without the is_pair test: it strips whenever the text starts with
\* "(" and ends with ")".
RECURSIVE strip_outer_unpaired(_)
strip_outer_unpaired(cs) ==
    IF cs # <<>> /\ Head(cs) = "(" /\ cs[Len(cs)] = ")"
    THEN strip_outer_unpaired(Strip(SubSeq(cs, 2, Len(cs) - 1)))
    ELSE cs

\* The while loop that removes parentheses wrapping the whole expression.
RECURSIVE strip_outer(_)
strip_outer(cs) ==
    IF cs # <<>> /\ Head(cs) = "(" /\ cs[Len(cs)] = ")" /\ is_pair(cs)
    THEN strip_outer(Strip(SubSeq(cs, 2, Len(cs) - 1)))
    ELSE cs

\* The first position of " op " whatever the depth; 0 when there is none.
find_operator_any_depth(cs, op) ==
    LET at == {i \in 1..(Len(cs) - 2) : SubSeq(cs, i, i + 2) = <<" ", op, " ">>}
    IN IF at = {} THEN 0 ELSE CHOOSE i \in at : \A j \in at : i <= j

\* The first position at depth 0 where " op " starts; 0 when there is none.
find_operator(cs, op) ==
    LET at == {i \in 1..(Len(cs) - 2) :
                  Depth(cs, i) = 0 /\ SubSeq(cs, i, i + 2) = <<" ", op, " ">>}
    IN IF at = {} THEN 0 ELSE CHOOSE i \in at : \A j \in at : i <= j

\* defs.find_abs_node(path) and str(target_node.get_state()): "None" when
\* the definitions hold no such node.
StateAt(defs, path) == IF path \in DOMAIN defs THEN defs[path] ELSE "None"

\* is_met and the icon of a found node.
icon_of(op, actual_state, expected_state) ==
    IF \/ op = "==" /\ actual_state = expected_state
       \/ op = "!=" /\ actual_state # expected_state
    THEN ICON_MET ELSE ICON_NOT_MET

\* re.search(r"(/[a-zA-Z0-9_/]+)(\s*(==|!=|<=|>=|<|>)\s*(\w+))?", expr_str):
\* the leftmost "/" followed by a word character or "/", the longest run of
\* such characters from there, and the comparison when one follows at once.
regex_search(cs) ==
    LET InClass(p) == IsWord(p) \/ p = "/"
        starts == {k \in 1..(Len(cs) - 1) : cs[k] = "/" /\ InClass(cs[k + 1])}
    IN IF starts = {} THEN [matched |-> FALSE, path |-> "", op |-> "", expected |-> ""]
       ELSE LET k0 == CHOOSE k \in starts : \A j \in starts : k <= j
                ends == {j \in (k0 + 1)..Len(cs) : \A i \in (k0 + 1)..j : InClass(cs[i])}
                j0 == CHOOSE j \in ends : \A i \in ends : j >= i
                Skip(a) == CHOOSE b \in a..(Len(cs) + 1) :
                               /\ \A i \in a..(b - 1) : cs[i] = " "
                               /\ b = Len(cs) + 1 \/ cs[b] # " "
                a == Skip(j0 + 1)
                b == Skip(a + 1)
                group2 == /\ a <= Len(cs) /\ cs[a] \in CompareOps
                          /\ b <= Len(cs) /\ IsWord(cs[b])
            IN [matched |-> TRUE,
                path |-> Text(SubSeq(cs, k0, j0)),
                op |-> IF group2 THEN cs[a] ELSE "==",
                expected |-> IF group2 THEN cs[b] ELSE "complete"]

\* The leaf of _parse_expression (lines 366-391).
leaf(cs, defs) ==
    LET match == regex_search(cs)
        actual_state == StateAt(defs, match.path)
    IN IF ~match.matched THEN UiNode(<<ICON_NOTE, " ", Text(cs)>>, "None", <<>>)
       ELSE IF actual_state = "None"
       THEN UiNode(<<ICON_UNKNOWN, " ", match.path, " (Not found)">>, "None", <<>>)
       ELSE UiNode(<<icon_of(match.op, actual_state, match.expected), " ", match.path, " ",
                     match.op, " ", actual_state, " (Expected: ", match.expected, ")">>,
                   match.path, <<>>)

\* _parse_expression with the operator that comes first in the text chosen,
\* whichever it is.
RECURSIVE parse_expression_first_operator(_, _)
parse_expression_first_operator(expr_str, defs) ==
    IF Strip(expr_str) = <<>> THEN <<>>
    ELSE LET cs == strip_outer(Strip(expr_str))
             o == find_operator(cs, "or")
             a == find_operator(cs, "and")
             op_node(i, label) ==
                 <<UiNode(<<label>>, "None",
                          parse_expression_first_operator(SubSeq(cs, 1, i - 1), defs)
                              \o parse_expression_first_operator(SubSeq(cs, i + 3, Len(cs)),
                                                                 defs))>>
         IN IF o # 0 /\ (a = 0 \/ o < a) THEN op_node(o, EXPR_OR_LABEL)
            ELSE IF a # 0 THEN op_node(a, EXPR_AND_LABEL)
            ELSE <<leaf(cs, defs)>>

\* WhyInspector._parse_expression(parent_ui_node, expr_str, defs): the nodes it
\* adds under parent_ui_node.
RECURSIVE parse_expression(_, _)
parse_expression(expr_str, defs) ==
    IF Strip(expr_str) = <<>> THEN <<>>
    ELSE LET cs == strip_outer(Strip(expr_str))
             o == find_operator(cs, "or")
             a == find_operator(cs, "and")
             op_node(i, op, label) ==
                 <<UiNode(<<label>>, "None",
                          parse_expression(SubSeq(cs, 1, i - 1), defs)
                              \o parse_expression(SubSeq(cs, i + 3, Len(cs)), defs))>>
         IN IF o # 0 THEN op_node(o, "or", EXPR_OR_LABEL)
            ELSE IF a # 0 THEN op_node(a, "and", EXPR_AND_LABEL)
            ELSE <<leaf(cs, defs)>>

\* ------------------------------ SpecWhy: _parse_expression on expressions
\* The paths, operators and states of the comparisons.
WhyPaths == {<<"/", "a">>, <<"/", "b">>, <<"/", "a", "/", "t", "-", "n", ".", "1">>}
WhyStates == {"complete", "active", "aborted"}
Comparisons ==
    {p \o <<" ", op, " ", st>> : p \in WhyPaths, op \in CompareOps, st \in WhyStates}

\* The comparisons put into the nested shapes.
NestLeaves ==
    {<<"/", "a", " ", "==", " ", "complete">>, <<"/", "b", " ", "!=", " ", "active">>,
     <<"/", "a", "/", "t", "-", "n", ".", "1", " ", "<", " ", "aborted">>}

Paren(e) == <<"(">> \o e \o <<")">>
Join(l, op, r) == l \o <<" ", op, " ">> \o r

\* (A) and ((B) or (C)), (A) or ((B) and (C)) and the same wrapped once more.
Nested ==
    LET inner == {Join(Paren(x), o1, Paren(Join(Paren(y), o2, Paren(z)))) :
                     x \in NestLeaves, y \in NestLeaves, z \in NestLeaves,
                     o1 \in {"and", "or"}, o2 \in {"and", "or"}}
    IN {e \in inner : \E k \in 1..Len(e) : e[k] = "and" /\ \E j \in 1..Len(e) : e[j] = "or"}

\* A op1 B op2 C without parentheses.
Flat ==
    {Join(Join(x, o1, y), o2, z) :
        x \in NestLeaves, y \in NestLeaves, z \in NestLeaves,
        o1 \in {"and", "or"}, o2 \in {"and", "or"}}

\* (A) op (B): it starts with "(" and ends with ")", and the first parenthesis
\* closes before the end.
Pairs == {Join(Paren(x), o, Paren(y)) : x \in NestLeaves, y \in NestLeaves, o \in {"and", "or"}}

\* e inside n pairs of parentheses.
RECURSIVE Wrap(_, _)
Wrap(e, n) == IF n = 0 THEN e ELSE Paren(Wrap(e, n - 1))

MaxWrap == 2   \* layers of parentheses around an expression in SpecWhy
Wrapped == {Wrap(e, n) : e \in Pairs \cup NestLeaves, n \in 1..MaxWrap}

Expressions ==
    Comparisons \cup Nested \cup {Paren(e) : e \in Nested} \cup Flat \cup Pairs \cup Wrapped

\* The definitions: /a and /a/t-n.1 complete or aborted, /b active, and /a/t
\* absent or in one of two states.
WhyDefs ==
    {d \in [{"/a", "/b", "/a/t-n.1", "/a/t"} -> WhyStates \cup {"None"}] :
        /\ d["/a"] \in {"complete", "aborted"}
        /\ d["/b"] = "active"
        /\ d["/a/t-n.1"] \in {"complete", "aborted"}
        /\ d["/a/t"] \in {"None", "complete", "aborted"}}

WhyOnly ==
    UNCHANGED <<contentVars, statusVars, treeVars, selected, serverVars, appVars, calls, ops,
                tweakVars, wrapperVars, cliVars, confirmVars, extVars>>

InitWhy ==
    /\ SessionApp(<<>>)
    /\ treeDefs = Snapshot(1)
    /\ selected = "None"
    /\ srvDefs = clientDefs
    /\ TweakerUnmounted
    /\ srvVariables = NoVariables
    /\ why_expr \in Expressions
    /\ why_defs \in WhyDefs
    /\ dep_tree = <<>>
    /\ dep_root = "Dependencies"
    /\ OtherUnitsIdle

\* _populate_dep_tree: self._parse_expression(trigger_node, expr, defs)
populate_dep_tree ==
    /\ dep_tree = <<>>
    /\ dep_tree' = parse_expression(why_expr, why_defs)
    /\ UNCHANGED <<why_expr, why_defs, dep_root>>
    /\ WhyOnly

NextWhy == populate_dep_tree

SpecWhy == InitWhy /\ [][NextWhy]_vars

\* ------------------------------------ WhyInspector: the refresh_deps worker
\* What the steps of the inspector's worker leave alone.
WhyWorkerOnly ==
    UNCHANGED <<tweakVars, wrapperVars, cliVars, confirmVars, extVars, why_expr, why_defs,
                contentVars, statusVars, treeVars, selected, srvDefs, jobout, ecflow_client,
                connPc, notifications, refresh, appCrashed>>

\* push_screen(WhyInspector(path, client)) and its on_mount: refresh_deps() hands
\* the tree to _refresh_deps_worker.
WhyInspector_on_mount ==
    /\ ~appCrashed
    /\ selected # "None" /\ ecflow_client # "None"
    /\ \A k \in 1..Len(modals) : modals[k].screen # "WhyInspector"
    /\ modals' = Append(modals, Screen("WhyInspector", selected))
    /\ workers' = workers (+) SetToBag({Worker("why", "clear", selected, "")})
    /\ ops' = ops + 1
    /\ UNCHANGED <<dep_tree, dep_root, clientDefs, calls>>
    /\ WhyWorkerOnly

\* _refresh_deps_logic: self.call_from_thread(tree.clear)
refresh_deps_clear(w) ==
    /\ ~appCrashed
    /\ w \in InFlight("why", "clear")
    /\ dep_tree' = <<>>
    /\ workers' = Replace(workers, w, [w EXCEPT !.pc = "sync_local"])
    /\ UNCHANGED <<dep_root, clientDefs, calls, modals, ops>>
    /\ WhyWorkerOnly

\* _refresh_deps_logic: self.client.sync_local()
refresh_deps_sync_local(w) ==
    /\ ~appCrashed
    /\ w \in InFlight("why", "sync_local")
    /\ calls' = Called("sync_local", "", "")
    /\ \E out \in Outcomes :
         /\ clientDefs' = IF out = "ok" THEN srvDefs ELSE clientDefs
         /\ workers' = Replace(workers, w,
                          [w EXCEPT !.pc = IF out = "ok" THEN "get_defs" ELSE "except",
                                    !.out = Append(w.out, out)])
    /\ UNCHANGED <<dep_tree, dep_root, modals, ops>>
    /\ WhyWorkerOnly

\* _refresh_deps_logic: defs = self.client.get_defs(), then "if not defs" and
\* node = defs.find_abs_node(self.node_path), "if not node".
refresh_deps_get_defs(w) ==
    /\ ~appCrashed
    /\ w \in InFlight("why", "get_defs")
    /\ calls' = Called("get_defs", "", "")
    /\ \E out \in Outcomes :
         workers' = Replace(workers, w,
                      [w EXCEPT !.pc = CASE out # "ok" -> "except"
                                         [] clientDefs = NoDefs -> "server_empty"
                                         [] find_abs_node(clientDefs, w.path) = "None" -> "not_found"
                                         [] OTHER -> "populate",
                                !.defs = IF out = "ok" THEN clientDefs ELSE NoDefs,
                                !.out = Append(w.out, out)])
    /\ UNCHANGED <<dep_tree, dep_root, clientDefs, modals, ops>>
    /\ WhyWorkerOnly

\* _refresh_deps_logic: call_from_thread(self._update_tree_root, tree, label) on
\* the early returns and in the two handlers, and
\* call_from_thread(self._populate_dep_tree, tree, node, defs).
refresh_deps_update(w) ==
    /\ ~appCrashed
    /\ w \in BagToSet(workers) /\ w.kind = "why"
    /\ w.pc \in {"server_empty", "not_found", "populate", "except"}
    /\ dep_root' = CASE w.pc = "server_empty" -> "Server Empty"
                     [] w.pc = "not_found" -> "Node not found"
                     [] w.pc = "populate" -> dep_root
                     [] w.out[Len(w.out)] = "RuntimeError" -> "Error: e"
                     [] OTHER -> "Unexpected Error: e"
    /\ dep_tree' = IF w.pc = "populate" THEN parse_expression(why_expr, why_defs)
                   ELSE dep_tree
    /\ workers' = workers (-) SetToBag({w})
    /\ UNCHANGED <<clientDefs, calls, modals, ops>>
    /\ WhyWorkerOnly

refresh_deps_worker(w) ==
    \/ refresh_deps_clear(w)
    \/ refresh_deps_sync_local(w)
    \/ refresh_deps_get_defs(w)
    \/ refresh_deps_update(w)

\* ------------------------------------------- server commands (app.py 437-463)
MaxServerKeys == 3

\* The wrapper operations action_restart_server and action_halt_server call.
ServerCommands == {"restart_server", "halt_server"}

\* The methods EcflowClient defines (client.py 54-245).
EcflowClientMethods ==
    {"ping", "sync_local", "get_defs", "file", "suspend", "resume", "kill",
     "force_complete", "alter", "requeue"}

ServerSuccess(cmd) ==
    IF cmd = "restart_server" THEN "Server Started (RUNNING)" ELSE "Server Halted (HALT)"

\* f"Restart Error: {e}" / f"Halt Error: {e}"
ServerError(cmd) == IF cmd = "restart_server" THEN "Restart Error" ELSE "Halt Error"

\* The user presses S or H: the @work(thread=True) action starts its thread.
action_server_command(cmd) ==
    /\ ~appCrashed
    /\ workers' = workers (+) SetToBag({Worker("server", "check", "None", cmd)})
    /\ ops' = ops + 1
    /\ UNCHANGED <<unitVars, contentVars, statusVars, treeVars, selected, serverVars, ecflow_client,
                   connPc, notifications, modals, refresh, appCrashed, calls>>

\* `if not self.ecflow_client: return`
server_command_check(w) ==
    /\ ~appCrashed
    /\ w \in InFlight("server", "check")
    /\ workers' = IF ecflow_client = "None"
                  THEN Replace(workers, w, [w EXCEPT !.pc = "done"])
                  ELSE Replace(workers, w, [w EXCEPT !.pc = "call"])
    /\ UNCHANGED <<unitVars, contentVars, statusVars, treeVars, selected, serverVars, ecflow_client,
                   connPc, notifications, modals, refresh, appCrashed, calls, ops>>

\* try: self.ecflow_client.restart_server(); self.notify("Server Started
\* (RUNNING)"); self.action_refresh().  EcflowClient has no such method: the
\* attribute lookup raises AttributeError before anything is called, and the
\* thread goes on in its `except Exception` clause.
server_command_call(w) ==
    /\ ~appCrashed
    /\ w \in InFlight("server", "call")
    /\ IF w.arg \in EcflowClientMethods
       THEN \E out \in Outcomes :
              /\ calls' = Called(w.arg, "", "")
              /\ IF out = "ok"
                 THEN /\ notifications' = Notify(notifications, <<ServerSuccess(w.arg), "", "">>)
                      /\ refresh' = action_refresh(<<w.arg, "">>)
                      /\ workers' = Replace(workers, w,
                                       [w EXCEPT !.pc = "done", !.out = <<out>>])
                 ELSE /\ workers' = Replace(workers, w,
                                       [w EXCEPT !.pc = "except", !.out = <<out>>])
                      /\ UNCHANGED <<notifications, refresh>>
       ELSE /\ workers' = Replace(workers, w,
                             [w EXCEPT !.pc = "except", !.out = <<"AttributeError">>])
            /\ UNCHANGED <<calls, notifications, refresh>>
    /\ UNCHANGED <<unitVars, contentVars, statusVars, treeVars, selected, serverVars, ecflow_client,
                   connPc, modals, appCrashed, ops>>

\* except Exception as e: self.notify(f"Restart Error: {e}", severity="error")
server_command_except(w) ==
    /\ ~appCrashed
    /\ w \in InFlight("server", "except")
    /\ notifications' = Notify(notifications, <<ServerError(w.arg), "", "error">>)
    /\ workers' = Replace(workers, w, [w EXCEPT !.pc = "done"])
    /\ UNCHANGED <<unitVars, contentVars, statusVars, treeVars, selected, serverVars, ecflow_client,
                   connPc, modals, refresh, appCrashed, calls, ops>>

server_command(w) ==
    \/ server_command_check(w)
    \/ server_command_call(w)
    \/ server_command_except(w)

ServerKey == ops < MaxServerKeys /\ \E cmd \in ServerCommands : action_server_command(cmd)

NextServer ==
    \/ ServerKey
    \/ \E w \in BagToSet(workers) : server_command(w)

SpecServer == InitSession /\ [][NextServer]_vars

\* ------------------------------------------------------------- EcflowClient
\* src/ectop/client.py: the wrapper around the native ecflow.Client.  Each
\* behaviour constructs one wrapper and makes up to MaxWrapperCalls calls on it.
MaxWrapperCalls == 1

DEFAULT_HOST == "localhost"
DEFAULT_PORT == 3141

Hosts == {DEFAULT_HOST, "h1"}
Ports == {DEFAULT_PORT, 8888}

\* str(port), as the f-strings format it
str_int(n) == CASE n = DEFAULT_PORT -> "3141" [] n = 8888 -> "8888"

\* the messages of the errors the native layer raises
NativeMessages == {"Connection refused", "timed out"}

WrapperPaths == {"/s1", "/s1/f/T"}
FileTypes == {"script", "jobout"}
AlterArgs == {<<"add_variable", "A", "2">>, <<"delete_variable", "A", "">>}
\* what the native get_defs and file return
NativeDefs == {"None", "Defs"}
NativeFiles == {"", "echo"}

\* a call on the native layer: out is "ok" and value what it returned, or out
\* is the type of the exception it raised and value the exception's message
NativeCall(op, args, out, value) == [op |-> op, args |-> args, out |-> out, value |-> value]

\* a call on the wrapper and how it ended
WrapperCall(method, args, end) == [method |-> method, args |-> args, end |-> end]

Returned(v) == [kind |-> "returned", value |-> v]
\* an exception of the given type; cause is the message of its __cause__
Raised(type, message, cause) ==
    [kind |-> "raised", type |-> type, message |-> message, cause |-> cause]

WrapperOnly ==
    UNCHANGED <<contentVars, statusVars, treeVars, selected, serverVars, appVars, calls, ops,
                tweakVars, whyVars, cliVars, confirmVars, extVars>>

\* EcflowClient.__init__: the fields are set and the native client is
\* constructed; nothing catches what the native constructor raises.
EcflowClient_init(host, port, out, e) ==
    /\ native_client.kind = "None"
    /\ native_calls = <<>>
    /\ LET args == <<host, str_int(port)>> IN
       IF out = "ok"
       THEN /\ native_calls' = <<NativeCall("Client", args, out, "Client")>>
            /\ native_client' = [kind |-> "Client", host |-> host, port |-> port]
            /\ wrapper_out' = <<WrapperCall("__init__", args, Returned("EcflowClient"))>>
       ELSE /\ native_calls' = <<NativeCall("Client", args, out, e)>>
            /\ native_client' = native_client
            /\ wrapper_out' = <<WrapperCall("__init__", args, Raised(out, <<e>>, "None"))>>
    /\ WrapperOnly

\* except RuntimeError as e: raise RuntimeError(f"Failed to <what>: {e}") from e
\* with the original message dropped (a variant the claims are checked against).
translate_without_original(what, e) == Raised("RuntimeError", <<"Failed to ">> \o what, e)

translate(what, e) == Raised("RuntimeError", <<"Failed to ">> \o what \o <<": ", e>>, e)

\* try: [return] self.client.<op>(*args) / except RuntimeError: translate.
\* returns says whether the method has a return statement; an exception that
\* is not a RuntimeError leaves the method as it is.
try_native(op, args, what, returns, out, e, result) ==
    /\ native_client.kind = "Client"
    /\ Len(native_calls) <= MaxWrapperCalls
    /\ native_calls' = Append(native_calls,
                              NativeCall(op, args, out, IF out = "ok" THEN result ELSE e))
    /\ wrapper_out' = Append(wrapper_out, WrapperCall(op, args,
                           CASE out = "ok" -> Returned(IF returns THEN result ELSE "None")
                             [] out = "RuntimeError" -> translate(what, e)
                             [] OTHER -> Raised(out, <<e>>, "None")))
    /\ UNCHANGED native_client
    /\ WrapperOnly

client_ping(out, e) ==
    try_native("ping", <<>>,
               <<"ping", " ecFlow server at ", native_client.host, ":",
                 str_int(native_client.port)>>, FALSE, out, e, "None")

client_sync_local(out, e) ==
    try_native("sync_local", <<>>, <<"sync", " with ecFlow server">>, FALSE, out, e, "None")

client_get_defs(out, e, result) ==
    try_native("get_defs", <<>>, <<"get definitions", " from client">>, TRUE, out, e, result)

client_file(path, file_type, out, e, result) ==
    try_native("file", <<path, file_type>>, <<"retrieve", " ", file_type, " for ", path>>,
               TRUE, out, e, result)

client_suspend(path, out, e) ==
    try_native("suspend", <<path>>, <<"suspend", " ", path>>, FALSE, out, e, "None")

client_resume(path, out, e) ==
    try_native("resume", <<path>>, <<"resume", " ", path>>, FALSE, out, e, "None")

client_kill(path, out, e) ==
    try_native("kill", <<path>>, <<"kill", " ", path>>, FALSE, out, e, "None")

client_force_complete(path, out, e) ==
    try_native("force_complete", <<path>>, <<"force complete", " ", path>>, FALSE, out, e,
               "None")

client_alter(path, a, out, e) ==
    try_native("alter", <<path>> \o a,
               <<"alter", " ", path, " (", a[1], " ", a[2], "=", a[3], ")">>, FALSE, out, e,
               "None")

client_requeue(path, out, e) ==
    try_native("requeue", <<path>>, <<"requeue", " ", path>>, FALSE, out, e, "None")

InitClient ==
    /\ SessionApp(<<>>)
    /\ treeDefs = Snapshot(1)
    /\ selected = "None"
    /\ srvDefs = clientDefs
    /\ TweakerUnmounted
    /\ srvVariables = NoVariables
    /\ UnitsIdle

NextClient ==
    \E out \in Outcomes, e \in NativeMessages :
        \/ \E host \in Hosts, port \in Ports : EcflowClient_init(host, port, out, e)
        \/ client_ping(out, e)
        \/ client_sync_local(out, e)
        \/ \E result \in NativeDefs : client_get_defs(out, e, result)
        \/ \E path \in WrapperPaths, file_type \in FileTypes, result \in NativeFiles :
               client_file(path, file_type, out, e, result)
        \/ \E path \in WrapperPaths :
               \/ client_suspend(path, out, e)
               \/ client_resume(path, out, e)
               \/ client_kill(path, out, e)
               \/ client_force_complete(path, out, e)
               \/ client_requeue(path, out, e)
               \/ \E a \in AlterArgs : client_alter(path, a, out, e)

SpecClient == InitClient /\ [][NextClient]_vars

\* ------------------------------------------------------------------ cli.main
\* src/ectop/cli.py.  Floats are counted in tenths of a second.
DEFAULT_REFRESH_INTERVAL == 20

\* what the user may write after a flag and what an environment variable may
\* hold; "None" is a flag not given, a variable not set
HostTexts == {"None", "h1", "h2"}
PortTexts == {"None", "8888", "9999", "abc"}
RefreshTexts == {"None", "0.5", "5.0", "fast"}

\* int(s) and float(s) of a text: defined on the texts that are numerals
IsInt(s) == s \in {"8888", "9999"}
int(s) == CASE s = "8888" -> 8888 [] s = "9999" -> 9999
IsFloat(s) == s \in {"0.5", "5.0"}
float(s) == CASE s = "0.5" -> 5 [] s = "5.0" -> 50

\* Ectop(host=..., port=..., refresh_interval=...)
Ectop(host, port, refresh_interval) ==
    [kind |-> "Ectop", host |-> host, port |-> port, refresh_interval |-> refresh_interval]

CliOnly ==
    UNCHANGED <<contentVars, statusVars, treeVars, selected, serverVars, appVars, calls, ops,
                tweakVars, whyVars, wrapperVars, confirmVars, extVars>>

\* os.environ.get(name, default)
environ_get(name, default) == IF cli_environ[name] = "None" THEN default ELSE cli_environ[name]

\* main: the three add_argument calls compute their defaults from the
\* environment at once, int() and float() raising ValueError on a text that is
\* no numeral; parse_args then converts the flags given with type=int and
\* type=float, ending in the usage message (exit status 2) on a text that is
\* no numeral; Ectop is constructed with the result.
main ==
    /\ cli_app.kind = "none"
    /\ cli_app' =
         LET host_default == environ_get("ECF_HOST", DEFAULT_HOST)
             port_env == cli_environ.ECF_PORT
             refresh_env == cli_environ.ECTOP_REFRESH
         IN  IF port_env # "None" /\ ~IsInt(port_env) THEN [kind |-> "ValueError"]
             ELSE IF refresh_env # "None" /\ ~IsFloat(refresh_env) THEN [kind |-> "ValueError"]
             ELSE IF \/ cli_argv.port # "None" /\ ~IsInt(cli_argv.port)
                     \/ cli_argv.refresh # "None" /\ ~IsFloat(cli_argv.refresh)
             THEN [kind |-> "usage"]
             ELSE Ectop(IF cli_argv.host # "None" THEN cli_argv.host ELSE host_default,
                        IF cli_argv.port # "None" THEN int(cli_argv.port)
                        ELSE IF port_env # "None" THEN int(port_env) ELSE DEFAULT_PORT,
                        IF cli_argv.refresh # "None" THEN float(cli_argv.refresh)
                        ELSE IF refresh_env # "None" THEN float(refresh_env)
                        ELSE DEFAULT_REFRESH_INTERVAL)
    /\ UNCHANGED <<cli_argv, cli_environ>>
    /\ CliOnly

InitCli ==
    /\ SessionApp(<<>>)
    /\ treeDefs = Snapshot(1)
    /\ selected = "None"
    /\ srvDefs = clientDefs
    /\ TweakerUnmounted
    /\ srvVariables = NoVariables
    /\ WhyIdle
    /\ native_client = [kind |-> "None"] /\ native_calls = <<>> /\ wrapper_out = <<>>
    /\ confirm_screen = "None" /\ confirm_log = <<>>
    /\ temp_files = 0
    /\ scenario = <<>> /\ legacy = <<>>
    /\ cli_argv \in [host : HostTexts, port : PortTexts, refresh : RefreshTexts]
    /\ cli_environ \in [ECF_HOST : HostTexts, ECF_PORT : PortTexts, ECTOP_REFRESH : RefreshTexts]
    /\ cli_app = [kind |-> "none"]

NextCli == main

SpecCli == InitCli /\ [][NextCli]_vars

\* -------------------------------------------------------------- ConfirmModal
\* src/ectop/widgets/modals/confirm.py.  Each behaviour presents the modal up
\* to MaxConfirms times; confirm_log holds, per presentation, the event that
\* was handled and the calls its handler made, in order.
MaxConfirms == 3

ConfirmKeys == {"escape", "y", "n"}
ConfirmButtons == {"yes_btn", "no_btn"}

ConfirmOnly ==
    UNCHANGED <<contentVars, statusVars, treeVars, selected, serverVars, appVars, calls, ops,
                tweakVars, whyVars, wrapperVars, cliVars, extVars>>

\* what the handler of `event` adds to the presentation on top
Handled(event, trace) ==
    [confirm_log EXCEPT ![Len(confirm_log)] = [event |-> event, trace |-> trace]]

\* self.push_screen(ConfirmModal(message, callback))
push_confirm ==
    /\ confirm_screen = "None"
    /\ Len(confirm_log) < MaxConfirms
    /\ confirm_screen' = "ConfirmModal"
    /\ confirm_log' = Append(confirm_log, [event |-> "None", trace |-> <<>>])
    /\ ConfirmOnly

\* action_close: self.app.pop_screen()
action_close(event) ==
    /\ confirm_log' = Handled(event, <<"pop_screen">>)
    /\ confirm_screen' = "None"
    /\ ConfirmOnly

\* the screen popped first and the callback called after it (a variant the
\* claims are checked against)
action_confirm_pop_first(event) ==
    /\ confirm_log' = Handled(event, <<"pop_screen", "callback">>)
    /\ confirm_screen' = "None"
    /\ ConfirmOnly

\* action_confirm: self.callback(); self.app.pop_screen()
action_confirm(event) ==
    /\ confirm_log' = Handled(event, <<"callback", "pop_screen">>)
    /\ confirm_screen' = "None"
    /\ ConfirmOnly

\* BINDINGS: escape -> close, y -> confirm, n -> close; the keys go to the
\* modal while it is the active screen
confirm_key(key) ==
    /\ confirm_screen = "ConfirmModal"
    /\ IF key = "y" THEN action_confirm(key) ELSE action_close(key)

\* on_button_pressed: yes_btn confirms, any other button closes
on_button_pressed(button_id) ==
    /\ confirm_screen = "ConfirmModal"
    /\ IF button_id = "yes_btn" THEN action_confirm(button_id) ELSE action_close(button_id)

InitConfirm ==
    /\ SessionApp(<<>>)
    /\ treeDefs = Snapshot(1)
    /\ selected = "None"
    /\ srvDefs = clientDefs
    /\ TweakerUnmounted
    /\ srvVariables = NoVariables
    /\ UnitsIdle

NextConfirm ==
    \/ push_confirm
    \/ \E key \in ConfirmKeys : confirm_key(key)
    \/ \E button_id \in ConfirmButtons : on_button_pressed(button_id)

SpecConfirm == InitConfirm /\ [][NextConfirm]_vars

\* ------------------------------------------- SpecEdit: editing in a session
EditKey == ops < MaxEditKeys /\ action_edit_script

NextEdit ==
    \/ EditKey
    \/ \E w \in BagToSet(workers) : edit_script(w)
    \/ \E event \in ConfirmKeys \cup ConfirmButtons : answer_requeue(event)
    \/ \E w \in BagToSet(workers) : run_client_command(w)

SpecEdit == InitSession /\ [][NextEdit]_vars

\* ----------------- SpecThreads: every handler that reaches the client wrapper
\* The keys of the main screen that start a worker, and the two bindings that
\* make a live-log tick possible. A ModalScreen on top takes the keys instead.
ThreadKey ==
    /\ ops < MaxThreadKeys
    /\ modals = <<>>
    /\ \/ UserRefresh
       \/ action_load_node
       \/ \E cmd \in Commands : action_run_client_command(cmd)
       \/ \E cmd \in ServerCommands : action_server_command(cmd)
       \/ action_edit_script
       \/ live_log_tick
       \/ WhyInspector_on_mount
       \/ on_mount
       \/ CursorMoves
       \/ action_toggle_live

NextThreads ==
    \/ initial_connect_worker
    \/ \E i \in DOMAIN refresh : refresh_worker(i)
    \/ \E w \in BagToSet(workers) : populate_tree_worker_start(w)
    \/ \E w \in BagToSet(workers) : populate_tree_worker_add(w)
    \/ ThreadKey
    \/ ops < MaxThreadKeys /\ TweakerKey
    \/ \E w \in BagToSet(workers) : run_client_command(w)
    \/ \E w \in BagToSet(workers) : server_command(w)
    \/ \E w \in BagToSet(workers) : load_node_worker(w)
    \/ \E w \in BagToSet(workers) : live_log_worker_file(w)
    \/ \E w \in BagToSet(workers) : live_log_worker_update(w)
    \/ \E w \in BagToSet(workers) : edit_script(w)
    \/ \E event \in ConfirmKeys \cup ConfirmButtons : answer_requeue(event)
    \/ \E w \in BagToSet(workers) : refresh_deps_worker(w)
    \/ \E w \in BagToSet(tweakWorkers) : refresh_vars_worker(w)
    \/ \E w \in BagToSet(tweakWorkers) : input_submitted_worker(w)
    \/ \E w \in BagToSet(tweakWorkers) : delete_variable_worker(w)
    \/ \E w \in BagToSet(tweakWorkers) : tweak_except(w)

SpecThreads == InitGuard /\ [][NextThreads]_vars

\* ------------------------------------------------------------------ claim C1
\* C1 (as stated): when a refresh was started while an earlier refresh worker
\* was still in flight, then once every refresh has finished the tree holds the
\* snapshot, and the status bar the status, of the refresh started last.
C1_LatestRefreshShown ==
    ( /\ \E i \in DOMAIN refresh : refresh[i].cancelled
      /\ \A i \in DOMAIN refresh : refresh[i].pc = "done" ) =>
        LET last == refresh[Len(refresh)] IN
        /\ last.out = "ok" => (treeDefs = last.defs /\ sbStatus = last.status)
        /\ last.out = "RuntimeError" => sbStatus = "Sync Error"

\* ------------------------------------------------------------------ claim C2
\* What one step of refresh worker i does when its sync_local or get_defs fails
\* with an exception of a kind in `fails`: no step of the worker up to and
\* through its handler touches the tree's snapshot, rows or path cache; the
\* failure leads to the handler that sets the status bar to "Sync Error" and
\* then emits the "Refresh Error" notification.
SyncFailureStep(i, fails) ==
    LET w == refresh[i]
        w2 == refresh'[i]
    IN  /\ (w2 # w /\ w.pc \in {"start", "sync_local", "get_defs", "err_status",
                                "err_notify", "unexp_notify"})
              => UNCHANGED <<treeDefs, treeCache, treeRows>>
        /\ (w.out = "" /\ w2.out \in fails)
              => (w.pc \in {"sync_local", "get_defs"} /\ w2.pc = "err_status")
        /\ (w.pc = "err_status" /\ w2.pc # w.pc)
              => (sbStatus' = "Sync Error" /\ w2.pc = "err_notify")
        /\ (w.pc = "err_notify" /\ w2.pc # w.pc)
              => /\ notifications' = Notify(notifications, <<"Refresh Error", "", "error">>)
                 /\ CopiesIn(<<"Refresh Error", "", "error">>, notifications') >= 1

\* A failure of any other kind: the status bar is left alone and the
\* "Unexpected Error" notification is emitted.
UnexpectedFailureStep(i) ==
    LET w == refresh[i]
        w2 == refresh'[i]
    IN  /\ (w.out = "" /\ w2.out = "Exception")
              => (w.pc \in {"sync_local", "get_defs"} /\ w2.pc = "unexp_notify")
        /\ (w.pc = "unexp_notify" /\ w2.pc # w.pc)
              => /\ UNCHANGED <<sbStatus, sbInfo>>
                 /\ CopiesIn(<<"Unexpected Error", "", "error">>, notifications') >= 1

\* C2 (as stated): whenever sync_local or get_defs fails during a refresh, the
\* rows, the snapshot and the path cache are untouched, the status becomes
\* "Sync Error" and an error notification is emitted.
C2_AnyFailureSetsSyncError ==
    [][\A i \in DOMAIN refresh : SyncFailureStep(i, {"RuntimeError", "Exception"})]_vars

\* C2 (amended): that holds when the call fails with the client's RuntimeError;
\* when it fails with any other exception the tree is untouched as well and an
\* "Unexpected Error" notification is emitted, but the status bar keeps its status.
C2_SyncFailureNonDestructive ==
    [][\A i \in DOMAIN refresh :
          SyncFailureStep(i, {"RuntimeError"}) /\ UnexpectedFailureStep(i)]_vars

\* A refresh of a loaded tree has failed with RuntimeError and its handler is
\* through: the rows and the cache are still there, the status is "Sync Error".
C2_Witness ==
    /\ \E i \in DOMAIN refresh : refresh[i].pc = "done" /\ refresh[i].out = "RuntimeError"
    /\ treeRows # <<>> /\ treeCache.present /\ treeDefs # NoDefs
    /\ sbStatus = "Sync Error"
    /\ CopiesIn(<<"Refresh Error", "", "error">>, notifications) >= 1

\* ------------------------------------------------------------------ claim C3
\* C3 (as stated): a refresh requested after the initial connect has failed
\* performs no client operation: its worker, if there is one, never gets as far
\* as sync_local.
C3_InertAfterFailedConnect ==
    \A i \in DOMAIN refresh :
        refresh[i].connAt = "failed" => refresh[i].pc \in {"start", "sync_local"}

\* ------------------------------------------------------------------ claim C4
\* C4 (as stated): whatever a client call raises inside a worker is caught in
\* that worker: no exception leaves a worker thread and ends the application.
C4_NoFailureLeavesAWorker == ~appCrashed

\* ------------------------------------------------------------------ claim C5
NodePaths == UNION {{SuitesOf(i)[k] : k \in 1..Len(SuitesOf(i))} : i \in DefsIds}

Min(a, b) == IF a <= b THEN a ELSE b

\* How many worker threads of the pool are in the set S.
NumWorkers(S) == BagCardinality([w \in S |-> workers[w]])

CmdWorkers(cmd, path) ==
    {w \in BagToSet(workers) : w.kind = "cmd" /\ w.arg = cmd /\ w.path = path}

\* C5: for every command and selected path, with a client connected: the client
\* operation has been called with that path once for each runner that is past
\* its call, and never more; each runner whose call succeeded emits the summary
\* notification and then starts one refresh; a runner whose call failed starts
\* none and emits an error notification.
C5_CommandRunner ==
    /\ \A cmd \in Commands, path \in NodePaths :
         LET W == CmdWorkers(cmd, path)
             past == NumWorkers({w \in W : w.pc \notin {"check", "call"}})
             notified == NumWorkers({w \in W : w.out = <<"ok">> /\ w.pc \in {"refresh", "done"}})
             refreshed == NumWorkers({w \in W : w.out = <<"ok">> /\ w.pc = "done"})
         IN  /\ CopiesIn(<<cmd, path, "">>, calls) = past
             /\ CopiesIn(<<Capitalized(cmd), path, "">>, notifications) = Min(notified, NoteCap)
             /\ Cardinality({i \in DOMAIN refresh : refresh[i].src = <<cmd, path>>}) = refreshed
    /\ LET D == {w \in BagToSet(workers) : w.kind = "cmd" /\ w.pc = "done"}
       IN  /\ CopiesIn(<<"Command Error", "", "error">>, notifications)
                = Min(NumWorkers({w \in D : w.out = <<"RuntimeError">>}), NoteCap)
           /\ CopiesIn(<<"Unexpected Error", "", "error">>, notifications)
                >= Min(NumWorkers({w \in D : w.out = <<"Exception">>}), NoteCap)

\* A runner has succeeded and is through: its refresh has been started after
\* its one call; and the state is not one of a failed runner.
C5_Witness ==
    \E w \in BagToSet(workers) :
        /\ w.kind = "cmd" /\ w.pc = "done" /\ w.out = <<"ok">>
        /\ CopiesIn(<<w.arg, w.path, "">>, calls) = 1
        /\ \E i \in DOMAIN refresh : refresh[i].src = <<w.arg, w.path>>

\* ------------------------------------------------------------------ claim C6
\* The threads the node actions start.
NodeWorkerKinds == {"cmd", "load", "edit", "finish"}

\* C6: a node action (load files, suspend, resume, kill, force-complete,
\* requeue, why, variables, edit script) taken while no row is selected or no
\* client is connected makes no client call and pushes no screen, and the only
\* thread it can start is a command runner, which ends at its first check
\* without having called the client.
C6_GuardedNodeActions ==
    /\ [](\A w \in BagToSet(workers) :
             (w.idle /\ w.kind \in NodeWorkerKinds)
                 => (w.kind = "cmd" /\ w.pc \in {"check", "done"} /\ w.out = <<>>))
    /\ [][(ops' # ops /\ (selected = "None" \/ ecflow_client = "None"))
             => /\ modals' = modals
                /\ calls' = calls
                /\ \A w \in BagToSet(workers') :
                      CopiesIn(w, workers') > CopiesIn(w, workers)
                          => (w.idle /\ w.kind = "cmd")]_vars

\* A command runner started with nothing selected has ended, and a guarded
\* action has warned, under a connected client.
C6_Witness ==
    /\ ecflow_client = "Client"
    /\ selected = "None"
    /\ \/ \E w \in BagToSet(workers) : w.kind = "cmd" /\ w.idle /\ w.pc = "done"
       \/ CopiesIn(<<"No node selected", "", "warning">>, notifications) >= 1
    /\ ops >= 1
    /\ modals = <<>>

\* ------------------------------------------------------------------ claim C7
LoadWorkers == {w \in BagToSet(workers) : w.kind = "load"}

\* What the three tabs show after load worker w, the only load of the session,
\* given the outcomes w.out of its sync_local and its jobout, script and job
\* fetches: the fetched text, or that tab's inline error.
TabsShow(w) ==
    /\ IF w.out[2] = "ok"
       THEN log_output = <<JoboutOf(w.path)>> /\ last_log_size = Len(JoboutOf(w.path))
       ELSE log_output = <<ErrLine>>
    /\ view_script = IF w.out[3] = "ok" THEN Shown("syntax", ScriptOf(w.path))
                     ELSE ErrorShown("File type 'script' not available.")
    /\ view_job = IF w.out[4] = "ok" THEN Shown("syntax", JobOf(w.path))
                  ELSE ErrorShown("File type 'job' not available.")

\* C7 (as stated): when a load worker's thread has ended, whatever failed, the
\* sync and all three fetches have been attempted, and each tab shows its own
\* fetched content or its own inline error.
C7_TabsIndependent ==
    \A w \in LoadWorkers :
        w.pc \in {"done", "raised"} =>
            /\ Len(w.out) = 4
            /\ NumWorkers(LoadWorkers) = 1 => TabsShow(w)

\* ------------------------------------------------------------ claims C8, C9
LastCall(k) == logCalls[Len(logCalls) - k]

\* The last three calls were update_log(c), update_log(c2, append) with c2 a
\* proper extension of c, and update_log(c2, append) again.
DeltaThenSame ==
    /\ Len(logCalls) >= 3
    /\ ~LastCall(2).append /\ LastCall(1).append /\ LastCall(0).append
    /\ IsPrefix(LastCall(2).content, LastCall(1).content)
    /\ LastCall(2).content # LastCall(1).content
    /\ LastCall(0).content = LastCall(1).content

\* The last two calls were update_log(c) and update_log(c2, append), c2 a proper extension of c.
DeltaCall ==
    /\ Len(logCalls) >= 2
    /\ ~LastCall(1).append /\ LastCall(0).append
    /\ IsPrefix(LastCall(1).content, LastCall(0).content)
    /\ LastCall(1).content # LastCall(0).content

\* C8: after update_log(c) and update_log(c2, append=True), where c2 properly
\* extends c, the log view holds exactly two writes, c and the suffix
\* c2[len(c):], and the recorded size is len(c2); a further
\* update_log(c2, append=True) adds no write and leaves the size at len(c2).
C8_LogAppendDelta ==
    /\ DeltaCall =>
          /\ log_output = <<LastCall(1).content,
                            SliceFrom(LastCall(0).content, Len(LastCall(1).content))>>
          /\ last_log_size = Len(LastCall(0).content)
    /\ DeltaThenSame =>
          /\ log_output = <<LastCall(2).content,
                            SliceFrom(LastCall(1).content, Len(LastCall(2).content))>>
          /\ last_log_size = Len(LastCall(1).content)

C8_Witness ==
    /\ DeltaThenSame
    /\ LastCall(2).content = <<"a">>
    /\ LastCall(1).content = <<"a", "b">>
    /\ log_output = <<(<<"a">>), (<<"b">>)>>

\* C9: after every update_log(content, append=True), whatever the content and
\* the size recorded before, the recorded size equals len(content).
C9_MarkerIsFullLength ==
    (Len(logCalls) >= 1 /\ LastCall(0).append) => last_log_size = Len(LastCall(0).content)

AppendCallStep ==
    /\ Len(logCalls') = Len(logCalls) + 1
    /\ logCalls'[Len(logCalls')].append

\* C9 as amended: a call update_log(content, append=True) sets the recorded size
\* to len(content) when content is longer than the size recorded before, and
\* leaves it unchanged otherwise.
C9_MarkerIsMax ==
    [][AppendCallStep =>
          LET n == Len(logCalls'[Len(logCalls')].content) IN
          last_log_size' = IF n > last_log_size THEN n ELSE last_log_size]_vars

\* An append call whose content is shorter than the recorded size has been made.
C9_Witness ==
    /\ Len(logCalls) >= 2
    /\ LastCall(0).append
    /\ Len(LastCall(0).content) < last_log_size

\* ------------------------------------------------------------------ claim C10
\* C10: while the selected node's jobout only grows, under any number of ticks
\* and any completion order of their workers, the log view holds exactly the
\* first last_log_size bytes of the file, each once and in order, and the
\* recorded size never decreases.
C10_LiveLogMonotonic ==
    /\ [](Flatten(log_output) = Prefix(jobout, last_log_size))
    /\ [][last_log_size' >= last_log_size]_vars

\* A worker that fetched before the file grew applies after a later worker did:
\* the last append call carried less than what is already shown.
C10_Witness ==
    /\ Len(logCalls) >= 2
    /\ LastCall(0).append /\ LastCall(1).append
    /\ Len(LastCall(0).content) < Len(LastCall(1).content)
    /\ Len(log_output) >= 2
    /\ last_log_size = Len(jobout)

\* ----------------------------------------------------------------- claim C13
\* The nodes of a snapshot, and those strictly below a path: the nodes whose
\* path continues it after a "/".
NodesIn(defs) == {n \in Nodes : find_abs_node(defs, n) # "None"}
Below(defs, path) ==
    {n \in NodesIn(defs) : IsPrefix(Chars(path) \o <<"/">>, Chars(n))}

\* C13: for every node of the snapshot and the filter in force, _should_show_node
\* is true exactly when no filter is set, or the node's own state is the
\* filter, or the state of some node below it, at any depth, is the filter.
C13_FilterVisibility ==
    treeDefs # NoDefs =>
        \A n \in NodesIn(treeDefs) :
            should_show_node(treeDefs, n, current_filter)
                <=> \/ current_filter = "None"
                    \/ treeDefs.st[n] = current_filter
                    \/ \E d \in Below(treeDefs, n) : treeDefs.st[d] = current_filter

\* A rebuilt tree shows a suite whose only matching node is two levels down and
\* hides a suite that does not match.
C13_Witness ==
    /\ current_filter = "aborted"
    /\ ops = 1
    /\ treeDefs.st["/s1"] # "aborted" /\ treeDefs.st["/s1/f"] # "aborted"
    /\ treeDefs.st["/s1/f/T"] = "aborted" /\ treeDefs.st["/s2"] # "aborted"
    /\ workers = EmptyBag
    /\ Payloads(treeRows, 0) = <<"/s1">>
\* ----------------------------------------------------------------- claim C11
FindWorkers == {w \in BagToSet(workers) : w.kind = "find"}
Scanned == {w \in FindWorkers : w.pc \notin {"start", "assign", "scan", "raised"}}

\* The list from the position after the cursor's path to its end, then from
\* its start through the cursor's path; the whole list when the cursor's
\* payload is not in it.
Rotated(list, cursor) ==
    IF \E k \in 1..Len(list) : list[k] = cursor
    THEN LET k == CHOOSE k \in 1..Len(list) : list[k] = cursor
         IN SubSeq(list, k + 1, Len(list)) \o SubSeq(list, 1, k)
    ELSE list

\* Path p contains query q, letter case aside.
Matches(p, q) ==
    \E off \in 0..(Len(Chars(p)) - Len(q)) :
        \A t \in 1..Len(q) : Lower(Chars(p)[off + t]) = Lower(q[t])

\* C11: the path a search goes on to select is the first one, in the flat list
\* read from just after the cursor's path and wrapped around, that contains the
\* query case-insensitively; with no such path the search has no target.
C11_SearchWraparound ==
    \A w \in Scanned :
        LET rot == Rotated(w.old, w.arg) IN
        IF \E j \in 1..Len(rot) : Matches(rot[j], w.query)
        THEN \E j \in 1..Len(rot) :
                 /\ w.path = rot[j]
                 /\ Matches(rot[j], w.query)
                 /\ \A i \in 1..(j - 1) : ~Matches(rot[i], w.query)
        ELSE w.path = "None"

\* The cursor was on the last path of the list, the only one that matches, and
\* the search selected that row again.
C11_Witness ==
    \E w \in Scanned :
        /\ w.pc = "selected"
        /\ Len(w.old) > 1
        /\ w.arg = w.old[Len(w.old)]
        /\ w.path = w.arg
        /\ \A k \in 1..(Len(w.old) - 1) : ~Matches(w.old[k], w.query)
        /\ selected = w.path

\* ----------------------------------------------------------------- claim C12
\* C12 (as stated): a search run against a present snapshot ends with the row
\* of the first match selected or with the "No match found" warning: it never
\* returns without either, and it never fails.
C12_SearchSelectsOrWarns ==
    \A w \in FindWorkers : w.pc \notin {"returned", "raised"}

\* ----------------------------------------------------------------- claim C14
\* C14 (as stated): while a filter is active, every row of the tree is a node
\* that is visible under it.
C14_RowsVisibleUnderFilter ==
    current_filter # "None" =>
        \A i \in 1..Len(treeRows) :
            should_show_node(treeDefs, treeRows[i].data, current_filter)

\* ----------------------------------------------------------------- claim C15
\* Row i is being loaded by a walk, or has been expanded.
Expanded(i) ==
    \/ treeRows[i].open
    \/ \E w \in FindWorkers : w.node = i /\ w.pc \in {"add", "expand"}

HasChildren(path) == IsContainer(path) /\ ChildrenOf(treeDefs, path) # <<>>

\* C15: within one tree build, a row never holds the placeholder together with
\* real rows; a row holds the placeholder only for a container that has
\* children; the row of such a container holds it until the row is first
\* expanded; and a placeholder once removed does not come back.
C15_PlaceholderInvariant ==
    /\ [](\A i \in 1..Len(treeRows) :
            /\ ~(treeRows[i].ph /\ KidsOf(treeRows, i) # <<>>)
            /\ treeRows[i].ph => HasChildren(treeRows[i].data)
            /\ (HasChildren(treeRows[i].data) /\ ~Expanded(i)) => treeRows[i].ph)
    /\ [][\A i \in 1..Len(treeRows) : ~treeRows[i].ph => ~treeRows'[i].ph]_vars

\* An expanded row shows its real child, whose own placeholder is still there.
C15_Witness ==
    \E i, j \in 1..Len(treeRows) :
        /\ treeRows[i].open /\ ~treeRows[i].ph
        /\ treeRows[j].parent = i
        /\ treeRows[j].ph /\ ~treeRows[j].open

\* ----------------------------------------------------------------- claim C16
\* C16 (as stated): under every interleaving of expansions, child-load workers
\* and the synchronous loads of a walk, no row holds two rows for the same
\* child, and a load that finds its branch already loaded is a no-op: it adds
\* nothing and it does not fail.
C16_LoadsIdempotent ==
    /\ \A i \in 0..Len(treeRows) :
           \A a, b \in 1..Len(KidsOf(treeRows, i)) :
               a # b => Payloads(treeRows, i)[a] # Payloads(treeRows, i)[b]
    /\ \A w \in FindWorkers : w.pc # "raised"
\* ----------------------------------------------------------------- claim C17
\* A step in which update_tree runs with a snapshot or without one.
UpdateTreeStep ==
    \/ \E i \in DOMAIN refresh : refresh_worker_update_tree(i)
    \/ action_cycle_filter /\ treeDefs # NoDefs

\* C17 (as stated): every update_tree leaves the path cache absent; a cache
\* that is present stays as it is until the next update_tree; and a search
\* scans a cache that is present and is the flat list of the current snapshot,
\* having rebuilt it when it found it absent.
C17_CacheLifecycle ==
    /\ [][UpdateTreeStep => ~treeCache'.present]_vars
    /\ [][(treeCache.present /\ ~UpdateTreeStep) => treeCache' = treeCache]_vars
    /\ [][\A w \in InFlight("find", "scan") :
             find_and_select_logic_scan(w) =>
                 treeCache.present /\ treeCache.paths = AllPaths(treeDefs)]_vars

\* ----------------------------------------------------------------- claim C18
\* C18 (as stated): once no population worker is running, the rows under the
\* root are the suites of the tree's snapshot that are visible under the
\* current filter, each once; with no snapshot there are no rows and the root
\* reads "Server Empty".
C18_FullRebuild ==
    (\A w \in BagToSet(workers) : w.kind # "populate") =>
        IF treeDefs = NoDefs
        THEN treeRows = <<>> /\ rootLabel = "Server Empty"
        ELSE LET top == Payloads(treeRows, 0)
                 want == Payloads(TopLevel(treeDefs, current_filter), 0)
             IN /\ {top[k] : k \in 1..Len(top)} = {want[k] : k \in 1..Len(want)}
                /\ \A a, b \in 1..Len(top) : a # b => top[a] # top[b]
\* ----------------------------------------------------------------- claim C19
\* The nearest parent of the node that has a user variable of that name.
Defines(sv, name) == {k \in 1..Len(ParentsOf(node_path)) : sv[ParentsOf(node_path)[k]][name] # "None"}
Nearest(sv, name) ==
    ParentsOf(node_path)[CHOOSE k \in Defines(sv, name) : \A j \in Defines(sv, name) : k <= j]

\* The rows the table is to hold for the variables sv of the node and its
\* parents.
ExpectedRows(sv) ==
    LET own == {n \in VarNameSet : sv[node_path][n] # "None"}
        gen == generated_variables(node_path)
        genNames == {gen[k].name : k \in 1..Len(gen)}
    IN  {Row(n, sv[node_path][n], "User", n) : n \in own}
        \cup {Row(gen[k].name, gen[k].value, "Generated", gen[k].name) : k \in 1..Len(gen)}
        \cup {Row(n, sv[Nearest(sv, n)][n], "Inherited (" \o NameOf(Nearest(sv, n)) \o ")",
                  "inh_" \o n) :
                n \in {m \in VarNameSet \ (own \cup genNames) : Defines(sv, m) # {}}}

TableHolds(table, sv) ==
    /\ {table[k] : k \in 1..Len(table)} = ExpectedRows(sv)
    /\ \A a, b \in 1..Len(table) : a # b => table[a] # table[b]

\* C19 (as stated): when a refresh puts its rows into the table, the table
\* holds one "User" row per own variable of the node it read, one "Generated"
\* row per generated variable, and for every other name that a parent defines
\* exactly one "Inherited (<parent name>)" row, of the nearest such parent and
\* keyed "inh_<name>"; no other row.
C19_InheritanceAndShadowing ==
    [][\A w \in TweakInFlight("refresh_vars", "update") :
          refresh_vars_update(w) => TableHolds(var_table', w.node)]_vars

\* ----------------------------------------------------------------- claim C20
\* C20 (as stated): selecting a row whose key starts with "inh_" leaves the
\* edit input, the selected name, the calls and the threads as they are; and a
\* press of "d" on such a row is rejected: its thread never gets to a call of
\* alter.
C20_InheritedReadOnly ==
    /\ [][(on_data_table_row_selected /\ startswith_inh(var_table[cursor_row + 1].key))
             => /\ input_hidden' = input_hidden
                /\ selected_var_name' = selected_var_name
                /\ calls' = calls
                /\ tweakWorkers' = tweakWorkers]_vars
    /\ [](\A w \in BagToSet(tweakWorkers) :
             (w.kind = "delete" /\ startswith_inh(w.pressed)) => w.pc \in {"read", "reject"})
\* ----------------------------------------------------------------- claim C21
\* The call alter(node_path, "add_variable", name, value) as it is recorded.
AddVariableCall(name, value) == <<"alter", node_path, "add_variable " \o name \o " " \o value>>

\* The part of the pieces before the first "=" and the part after it, without
\* the blanks at their ends.
Trimmed(cs) ==
    LET lo == {k \in 1..Len(cs) : cs[k] # " "}
    IN IF lo = {} THEN <<>>
       ELSE SubSeq(cs, CHOOSE k \in lo : \A j \in lo : k <= j, CHOOSE k \in lo : \A j \in lo : k >= j)
FirstEq(v) == CHOOSE k \in 1..Len(v) : v[k] = "=" /\ \A j \in 1..(k - 1) : v[j] # "="

\* C21 (as stated): the thread of a submission makes the call of the mode the
\* text was submitted in: in edit mode one add_variable call for the selected
\* name with the text as it is; in add mode, for a text with "=", one
\* add_variable call with the trimmed parts before and after the first "=";
\* for a text without "=", no call and then the warning.
C21_Submission ==
    [][\A w \in TweakInFlight("submit", "alter") :
          input_submitted_alter(w) =>
              IF w.mode # "None"
              THEN calls' = calls (+) SetToBag({AddVariableCall(w.mode, Text(w.value))})
              ELSE IF \E k \in 1..Len(w.value) : w.value[k] = "="
              THEN calls' = calls (+) SetToBag({AddVariableCall(
                        Text(Trimmed(SubSeq(w.value, 1, FirstEq(w.value) - 1))),
                        Text(Trimmed(SubSeq(w.value, FirstEq(w.value) + 1, Len(w.value)))))})
              ELSE /\ calls' = calls
                   /\ \E w2 \in BagToSet(tweakWorkers') : w2.kind = "submit" /\ w2.pc = "warn"]_vars
\* ----------------------------------------------------------------- claim C22
OperatorLabel(op) == IF op = "and" THEN EXPR_AND_LABEL ELSE EXPR_OR_LABEL

\* The tree of (x) o1 ((y) o2 (z)): one node for o1 holding the leaf of x and
\* one node for o2, which holds the leaves of y and z.
NestedTree(x, o1, y, o2, z, defs) ==
    <<UiNode(<<OperatorLabel(o1)>>, "None",
             <<leaf(x, defs),
               UiNode(<<OperatorLabel(o2)>>, "None", <<leaf(y, defs), leaf(z, defs)>>)>>)>>

\* C22: parsing (A) and ((B) or (C)), wrapped in a further pair of parentheses
\* or not, adds exactly one AND node, whose children are the leaf of A and one
\* OR node with the leaves of B and C; likewise with the operators exchanged:
\* the operator inside the group never splits at the outer level.
C22_ExpressionNesting ==
    [][populate_dep_tree =>
          \A x, y, z \in NestLeaves : \A o1, o2 \in {"and", "or"} :
              LET e == Join(Paren(x), o1, Paren(Join(Paren(y), o2, Paren(z))))
              IN (o1 # o2 /\ why_expr \in {e, Paren(e)})
                     => dep_tree' = NestedTree(x, o1, y, o2, z, why_defs)]_vars

\* (/a == complete) and ((/b != active) or (/a/t-n.1 < aborted)) was parsed
\* into one AND node with a leaf and one OR node of two leaves.
C22_Witness ==
    /\ why_expr = Join(Paren(<<"/", "a", " ", "==", " ", "complete">>), "and",
                       Paren(Join(Paren(<<"/", "b", " ", "!=", " ", "active">>), "or",
                                  Paren(<<"/", "a", "/", "t", "-", "n", ".", "1", " ", "<", " ",
                                          "aborted">>))))
    /\ Len(dep_tree) = 1
    /\ dep_tree[1].label = <<EXPR_AND_LABEL>>
    /\ Len(dep_tree[1].kids) = 2
    /\ dep_tree[1].kids[1].kids = <<>>
    /\ dep_tree[1].kids[2].label = <<EXPR_OR_LABEL>>
    /\ Len(dep_tree[1].kids[2].kids) = 2

\* ----------------------------------------------------------------- claim C23
\* The pieces of a label.
PiecesOf(label) == {label[k] : k \in 1..Len(label)}

\* C23 (as stated): parsing "P == S" for a path P of the definitions, also one
\* with "-" and "." in a segment, adds exactly one leaf; its label holds P in
\* full, the actual state and S, and starts with the met icon when the state
\* of P is S and with the not-met icon otherwise.
C23_LeafEvaluation ==
    [][populate_dep_tree =>
          \A P \in WhyPaths : \A S \in WhyStates :
              (why_expr = P \o <<" ", "==", " ", S>> /\ StateAt(why_defs, Text(P)) # "None")
                  => /\ Len(dep_tree') = 1
                     /\ dep_tree'[1].kids = <<>>
                     /\ {Text(P), StateAt(why_defs, Text(P)), S} \subseteq PiecesOf(dep_tree'[1].label)
                     /\ Head(dep_tree'[1].label) =
                            IF StateAt(why_defs, Text(P)) = S THEN ICON_MET ELSE ICON_NOT_MET]_vars

\* ----------------------------------------------------------------- claim C24
\* C24 (as stated): for a comparison "P op S" with P in the definitions, the
\* leaf has the met icon exactly when op is == and the state is S, or op is !=
\* and the state is not S; for <, >, <= and >= it has neither the met nor the
\* not-met icon.
C24_LeafVerdictByOperator ==
    [][populate_dep_tree =>
          \A P \in WhyPaths : \A op \in CompareOps : \A S \in WhyStates :
              (why_expr = P \o <<" ", op, " ", S>> /\ StateAt(why_defs, Text(P)) # "None")
                  => LET label == dep_tree'[1].label
                         actual == StateAt(why_defs, Text(P))
                     IN IF op \in {"==", "!="}
                        THEN (ICON_MET \in PiecesOf(label))
                                 <=> ((op = "==" /\ actual = S) \/ (op = "!=" /\ actual # S))
                        ELSE ICON_MET \notin PiecesOf(label)
                                 /\ ICON_NOT_MET \notin PiecesOf(label)]_vars

\* ------------------------------------------------------------------ claim C25
TranslatedOps ==
    {"ping", "sync_local", "get_defs", "file", "suspend", "resume", "kill",
     "force_complete", "alter", "requeue"}

\* the operation description that follows "Failed to " in the message
OperationDescription(op) ==
    CASE op = "sync_local" -> "sync"
      [] op = "get_defs" -> "get definitions"
      [] op = "file" -> "retrieve"
      [] op = "force_complete" -> "force complete"
      [] OTHER -> op

Elements(seq) == {seq[i] : i \in DOMAIN seq}

\* "Failed to <operation description> <target>: <original message>", the
\* target naming every argument of the call
TranslatedMessage(m, op, args, e) ==
    /\ Len(m) >= 4
    /\ m[1] = "Failed to "
    /\ m[2] = OperationDescription(op)
    /\ \A i \in DOMAIN args : args[i] \in Elements(SubSeq(m, 3, Len(m) - 2))
    /\ m[Len(m) - 1] = ": "
    /\ m[Len(m)] = e

\* every wrapper call made one native call, with the arguments it was given
PassedThroughOnce ==
    /\ Len(wrapper_out) = Len(native_calls)
    /\ \A i \in DOMAIN wrapper_out :
           /\ wrapper_out[i].method \in TranslatedOps =>
                  native_calls[i].op = wrapper_out[i].method
           /\ native_calls[i].args = wrapper_out[i].args

Translates(i) ==
    LET w == wrapper_out[i]
        n == native_calls[i]
    IN  /\ w.end.kind = "raised"
        /\ TranslatedMessage(w.end.message, w.method, w.args, n.value)
        /\ w.end.cause = n.value

\* C25 (as stated): for each of the ten operations the native call is made
\* once with the arguments given; when it succeeds the wrapper returns its
\* result unchanged, and when it fails, in whatever way, the wrapper raises
\* "Failed to <operation description> <target>: <original message>" with the
\* original error as cause.
C25_AnyFailureTranslated ==
    /\ PassedThroughOnce
    /\ \A i \in DOMAIN wrapper_out :
           wrapper_out[i].method \in TranslatedOps =>
               IF native_calls[i].out = "ok"
               THEN wrapper_out[i].end = Returned(native_calls[i].value)
               ELSE Translates(i)

\* C25 (amended): the same, the translation being of the native layer's
\* RuntimeError; an exception of any other type leaves the wrapper as the
\* native layer raised it, untranslated and without a cause.
C25_ClientErrorTranslation ==
    /\ PassedThroughOnce
    /\ \A i \in DOMAIN wrapper_out :
           wrapper_out[i].method \in TranslatedOps =>
               CASE native_calls[i].out = "ok" ->
                        wrapper_out[i].end = Returned(native_calls[i].value)
                 [] native_calls[i].out = "RuntimeError" -> Translates(i)
                 [] OTHER ->
                        wrapper_out[i].end =
                            Raised(native_calls[i].out, <<native_calls[i].value>>, "None")

\* an alter on a constructed wrapper whose native call raised a RuntimeError
C25_Witness ==
    /\ Len(wrapper_out) = 2
    /\ wrapper_out[1].end = Returned("EcflowClient")
    /\ wrapper_out[2].method = "alter"
    /\ native_calls[2].out = "RuntimeError"
    /\ wrapper_out[2].end.kind = "raised"
    /\ wrapper_out[2].end.cause = native_calls[2].value

\* ------------------------------------------------------------------ claim C26
\* C26 (as stated): when the native client constructor fails, constructing the
\* wrapper raises a translated error whose message contains
\* "Failed to initialize ecFlow client".
C26_ConstructorTranslated ==
    \A i \in DOMAIN wrapper_out :
        (wrapper_out[i].method = "__init__" /\ native_calls[i].out # "ok") =>
            /\ wrapper_out[i].end.kind = "raised"
            /\ Len(wrapper_out[i].end.message) >= 3
            /\ SubSeq(wrapper_out[i].end.message, 1, 3)
                   = <<"Failed to ", "initialize", " ecFlow client">>

\* ------------------------------------------------------------------ claim C27
ServerWorkers(cmd) == {w \in BagToSet(workers) : w.kind = "server" /\ w.arg = cmd}

\* C27 (as stated): with a client connected, each restart (halt) action calls
\* the wrapper's restart_server (halt_server) once; when the call succeeds it
\* notifies "Server Started (RUNNING)" ("Server Halted (HALT)") and then
\* starts one refresh; when the call fails an error is notified and no
\* refresh is started.
C27_ServerCommand ==
    \A cmd \in ServerCommands :
        LET W == ServerWorkers(cmd)
            past == NumWorkers({w \in W : w.pc \in {"except", "done"}})
            succeeded == NumWorkers({w \in W : w.out = <<"ok">> /\ w.pc = "done"})
            failed == NumWorkers({w \in W : w.out # <<"ok">> /\ w.pc = "done"})
        IN  /\ ecflow_client # "None" => CopiesIn(<<cmd, "", "">>, calls) = past
            /\ CopiesIn(<<ServerSuccess(cmd), "", "">>, notifications)
                   = Min(succeeded, NoteCap)
            /\ Cardinality({i \in DOMAIN refresh : refresh[i].src = <<cmd, "">>}) = succeeded
            /\ CopiesIn(<<ServerError(cmd), "", "error">>, notifications)
                   = Min(failed, NoteCap)

\* ------------------------------------------------------------------ claim C28
\* the number of calls of a wrapper operation without arguments made so far
CallsOf(op) == CopiesIn(<<op, "", "">>, calls)

\* the run-state label of a snapshot
RunStateLabel(defs) == IF defs # NoDefs THEN defs.state ELSE "Connected"

\* sync_local, then get_defs, then the update of the sidebar with the fetched
\* snapshot, then the update of the status bar with the label
SyncFetchUpdate(w, w2) ==
    /\ (w2.pc = "get_defs" /\ w.pc # "get_defs") =>
           (w.pc = "sync_local" /\ CallsOf("sync_local")' >= 1)
    /\ (w2.pc = "update_tree" /\ w.pc # "update_tree") =>
           (w.pc = "get_defs" /\ w2.defs = clientDefs)
    /\ (w.pc = "update_tree" /\ w2.pc # "update_tree") =>
           (w2.pc = "update_status" /\ treeDefs' = w.defs)
    /\ (w.pc = "update_status" /\ w2.pc # "update_status") =>
           sbStatus' = RunStateLabel(w.defs)

\* the server version is fetched before the user interface is updated, and
\* the status bar is handed the fetched string
VersionFetched(w, w2) ==
    /\ (w.pc = "update_tree" /\ w2.pc # "update_tree") => CallsOf("server_version") >= 1
    /\ (w.pc = "update_status" /\ w2.pc # "update_status") =>
           (CallsOf("server_version") >= 1 /\ sbVersion' # "Unknown")

\* C28 (as stated): a successful refresh performs sync_local, then get_defs,
\* then fetches the server version, and only then updates the sidebar with
\* the fetched snapshot and the status bar with the run-state label of the
\* definitions ("Connected" when there are none) and the fetched version.
C28_RefreshCallSequence ==
    [][\A i \in DOMAIN refresh :
           /\ SyncFetchUpdate(refresh[i], refresh'[i])
           /\ VersionFetched(refresh[i], refresh'[i])]_vars

\* ------------------------------------------------------------------ claim C29
\* the text that counts for a parameter: the flag's when the flag is given,
\* else the environment variable's when it is set, else "None" (the default)
Chosen(flag, env) == IF flag # "None" THEN flag ELSE env

\* the texts that count are numerals where a number is expected
ChosenWellFormed ==
    /\ Chosen(cli_argv.port, cli_environ.ECF_PORT) \in {"None", "8888", "9999"}
    /\ Chosen(cli_argv.refresh, cli_environ.ECTOP_REFRESH) \in {"None", "0.5", "5.0"}

ExpectedApp ==
    LET h == Chosen(cli_argv.host, cli_environ.ECF_HOST)
        p == Chosen(cli_argv.port, cli_environ.ECF_PORT)
        r == Chosen(cli_argv.refresh, cli_environ.ECTOP_REFRESH)
    IN  [kind |-> "Ectop",
         host |-> IF h = "None" THEN "localhost" ELSE h,
         port |-> CASE p = "None" -> 3141 [] p = "8888" -> 8888 [] p = "9999" -> 9999,
         refresh_interval |-> CASE r = "None" -> 20 [] r = "0.5" -> 5 [] r = "5.0" -> 50]

\* C29 (as stated): whatever the flags and whatever the environment holds,
\* once main has run the application has been constructed with, for each of
\* host, port and refresh interval, the flag's value when the flag is given,
\* else the environment variable's value when it is set, else the default
\* (localhost, 3141, 2.0), the values that count being numerals where numbers
\* are expected.
C29_CliPrecedence ==
    (cli_app.kind # "none" /\ ChosenWellFormed) => cli_app = ExpectedApp

\* ------------------------------------------------------------------ claim C30
Count(trace, what) == Cardinality({k \in DOMAIN trace : trace[k] = what})

\* C30: per presentation whose event has been handled, the callback has been
\* called once when the event is 'y' or the Yes button and never when it is
\* Escape, 'n' or another button; the modal has been dismissed once in every
\* case; and on confirm the callback came before the dismissal.
C30_ConfirmModal ==
    \A i \in DOMAIN confirm_log :
        LET p == confirm_log[i] IN
        /\ p.event \in {"y", "yes_btn"} =>
               /\ Count(p.trace, "callback") = 1
               /\ Count(p.trace, "pop_screen") = 1
               /\ \E a, b \in DOMAIN p.trace :
                      a < b /\ p.trace[a] = "callback" /\ p.trace[b] = "pop_screen"
        /\ p.event \in {"escape", "n", "no_btn"} =>
               /\ Count(p.trace, "callback") = 0
               /\ Count(p.trace, "pop_screen") = 1
        /\ p.event = "None" =>
               (p.trace = <<>> /\ i = Len(confirm_log) /\ confirm_screen = "ConfirmModal")
        /\ (p.event # "None" /\ i = Len(confirm_log)) => confirm_screen = "None"

\* one presentation confirmed with 'y', one closed with Escape and one
\* confirmed with the Yes button
C30_Witness ==
    /\ Len(confirm_log) = 3
    /\ confirm_log[1].event = "y"
    /\ confirm_log[2].event = "escape"
    /\ confirm_log[3].event = "yes_btn"

\* ------------------------------------------------------------------ claim C31
FinishWorkers == {w \in BagToSet(workers) : w.kind = "finish"}

\* a _finish_edit worker that has read the file: alter has been called, or is
\* the next step, exactly when the user changed the file; an unchanged file
\* leads to no client call and to "No changes detected"
AlterIffChanged(w) ==
    /\ w.arg = "changed" <=> (w.pc = "alter" \/ w.out # <<>>)
    /\ w.arg = "unchanged" => w.pc \in {"same_notify", "done"}
    /\ (w.arg = "unchanged" /\ w.pc = "done") =>
           CopiesIn(<<"No changes detected", "", "">>, notifications) >= 1

\* the temporary files on disk are those of the editors still open and of the
\* _finish_edit workers that have not read theirs yet
TempFilesDeleted ==
    temp_files = NumWorkers(InFlight("edit", "run_editor"))
                   + NumWorkers(InFlight("finish", "read"))

\* the ConfirmModal is pushed by a _finish_edit worker whose alter succeeded
PromptAfterAlter ==
    Len(modals') > Len(modals) =>
        \E w \in InFlight("finish", "prompt") :
            /\ w.out = <<"ok">>
            /\ CopiesIn(<<"alter", w.path, "change script">>, calls) >= 1
            /\ modals' = Append(modals, Screen("ConfirmModal", w.path))

RequeueWorkers(pool) ==
    {w \in BagToSet(pool) : w.kind = "cmd" /\ w.arg = "requeue" /\ w.pc = "check"}

\* a requeue is started only by the user confirming the modal of that path
RequeueAfterConfirm ==
    \A w \in RequeueWorkers(workers') :
        CopiesIn(w, workers') > CopiesIn(w, workers) =>
            /\ modals # <<>>
            /\ modals[Len(modals)] = Screen("ConfirmModal", w.path)
            /\ modals' = SubSeq(modals, 1, Len(modals) - 1)

\* C31 (as stated): after the editor exits the temporary file is read and
\* deleted; alter(path, 'change', 'script', new_content) is called if and only
\* if the content was changed; the requeue confirmation is presented only
\* after that alter succeeded and requeue(path) is issued only if the user
\* then confirms; when the content is unchanged no client call is made and
\* "No changes detected" is notified.
C31_FinishEdit ==
    /\ [](\A w \in FinishWorkers : w.pc # "read" => AlterIffChanged(w))
    /\ []TempFilesDeleted
    /\ [][PromptAfterAlter /\ RequeueAfterConfirm]_vars

\* ------------------------------------------------------------ claim C32
\* The steps that run on a worker thread and call the client wrapper: the bodies
\* of the @work(thread=True) methods outside their call_from_thread callbacks.
WrapperCallOnWorker ==
    \/ initial_connect_worker_construct
    \/ initial_connect_worker_ping
    \/ \E i \in DOMAIN refresh : refresh_worker_sync_local(i) \/ refresh_worker_get_defs(i)
    \/ \E w \in BagToSet(workers) :
         \/ run_client_command_call(w)
         \/ server_command_call(w)
         \/ load_node_worker_sync_local(w)
         \/ load_node_worker_file(w)
         \/ live_log_worker_file(w)
         \/ edit_script_worker_file(w)
         \/ finish_edit_alter(w)
         \/ refresh_deps_sync_local(w)
         \/ refresh_deps_get_defs(w)
    \/ \E w \in BagToSet(tweakWorkers) :
         \/ refresh_vars_fetch(w)
         \/ input_submitted_alter(w)
         \/ delete_variable_alter(w)

\* C32: every call of the client wrapper made by the controller, the Why
\* inspector and the Variable tweaker is made by a step of a worker thread,
\* never by a key handler, a modal callback or a call_from_thread callback.
C32_ThreadDiscipline == [][calls' # calls => WrapperCallOnWorker]_vars

\* a requeue confirmed in the modal that follows an edit has been called
C32_Witness ==
    \E path \in {"/s1", "/s1/f", "/s1/f/T"} :
        /\ CopiesIn(<<"alter", path, "change script">>, calls) >= 1
        /\ CopiesIn(<<"requeue", path, "">>, calls) >= 1

\* ------------------------------------------ the legacy prototype (ecflowtui)
\* EcflowTUI runs beside the application against the same server: the user
\* presses the same key on the same node in both, and each call of the server
\* ends in both the same way.
LegacyKeys == {"refresh", "load", "suspend", "resume", "kill", "force_complete"}
LegacyCommands == LegacyKeys \ {"refresh", "load"}

\* The calls of a scenario that can fail: the n-th call of an operation.
FailPoints ==
    {<<"EcflowClient", 1>>, <<"ping", 1>>, <<"sync_local", 1>>, <<"sync_local", 2>>,
     <<"get_defs", 1>>, <<"get_defs", 2>>, <<"file", 1>>, <<"file", 2>>, <<"file", 3>>,
     <<"cmd", 1>>}

\* A scenario: the key pressed once the startup is over ("none" for no key),
\* whether the first row of the tree is selected before it, and the call that
\* fails with its exception (<<>> when every call succeeds).
Scenarios ==
    [key : LegacyKeys \cup {"none"}, select : BOOLEAN,
     fail : {<<>>} \cup {<<p[1], p[2], e>> : p \in FailPoints, e \in Outcomes \ {"ok"}}]

\* How the n-th call of op ends.
NthOut(op, n) ==
    IF scenario.fail # <<>> /\ scenario.fail[1] = op /\ scenario.fail[2] = n
    THEN scenario.fail[3] ELSE "ok"

\* The number of calls in a bag whose operation is in ops.
NumCalls(bag, ops_) ==
    LET cs == {c \in BagToSet(bag) : c[1] \in ops_}
    IN BagCardinality([c \in cs |-> bag[c]])

\* How the next call of op ends, given the calls made so far; the node
\* commands are counted together.
NextOut(bag, op) ==
    IF op \in Commands THEN NthOut("cmd", NumCalls(bag, Commands) + 1)
    ELSE NthOut(op, NumCalls(bag, {op}) + 1)

\* EcflowTUI after compose, before on_mount.
LegacyApp ==
    [pc |-> "unmounted", client |-> "None", defs |-> NoDefs, tree |-> <<>>,
     root |-> "ecFlow Server", cursor |-> "None", notes |-> EmptyBag, calls |-> EmptyBag,
     log |-> <<>>, view_script |-> Shown("empty", <<>>), view_job |-> Shown("empty", <<>>),
     keys |-> 0]

LegacyCall(L, op, path, arg) == [L EXCEPT !.calls = @ (+) SetToBag({<<op, path, arg>>})]
LegacyNotify(L, msg) == [L EXCEPT !.notes = Notify(@, msg)]

\* EcflowTUI.action_refresh: tree.clear(), sync_local, get_defs, the root label,
\* _add_node for every suite (which adds every node below it), and the
\* notification; any exception is notified as a refresh error.
legacy_action_refresh(L) ==
    LET cleared == [L EXCEPT !.tree = <<>>]
        sync == NextOut(cleared.calls, "sync_local")
        L1 == LegacyCall(cleared, "sync_local", "", "")
        L2 == [L1 EXCEPT !.defs = srvDefs]
        get == NextOut(L2.calls, "get_defs")
        L3 == LegacyCall(L2, "get_defs", "", "")
        error(Lx) == LegacyNotify(Lx, <<"Refresh Error", "", "error">>)
    IN IF sync # "ok" THEN error(L1)
       ELSE IF get # "ok" THEN error(L3)
       ELSE IF L3.defs = NoDefs THEN [L3 EXCEPT !.root = "Server Empty"]
       ELSE LegacyNotify([L3 EXCEPT !.root = "host:port", !.tree = AllPaths(L3.defs)],
                         <<"Tree Refreshed", "", "">>)

\* EcflowTUI.on_mount: ecflow.Client(host, port), ping, action_refresh; a
\* RuntimeError is notified and shown on the root, any other exception leaves
\* the handler.
legacy_on_mount_handler(L) ==
    LET made == NextOut(L.calls, "EcflowClient")
        L1 == LegacyCall(L, "EcflowClient", "", "")
        L2 == [L1 EXCEPT !.client = "Client"]
        pinged == NextOut(L2.calls, "ping")
        L3 == LegacyCall(L2, "ping", "", "")
        failed(Lx, out) ==
            IF out = "RuntimeError"
            THEN [LegacyNotify(Lx, <<"Connection Failed", "", "error">>)
                     EXCEPT !.root = "Connection Failed (Check Host/Port)", !.pc = "mounted"]
            ELSE [Lx EXCEPT !.pc = "crashed"]
    IN IF made # "ok" THEN failed(L1, made)
       ELSE IF pinged # "ok" THEN failed(L3, pinged)
       ELSE [legacy_action_refresh(L3) EXCEPT !.pc = "mounted"]

\* _load_log_content: widget.clear(), then the content or, on a RuntimeError,
\* the message; any other exception leaves the handler.
legacy_load_log_content(L, path) ==
    LET out == NextOut(L.calls, "file")
        L1 == LegacyCall([L EXCEPT !.log = <<>>], "file", path, "jobout")
    IN CASE out = "ok" -> [L1 EXCEPT !.log = <<JoboutOf(path)>>]
         [] out = "RuntimeError" -> [L1 EXCEPT !.log = <<ErrLine>>]
         [] OTHER -> [L1 EXCEPT !.pc = "crashed"]

\* _load_code_content for 'script' and 'job'.
legacy_load_code_content(L, path, file_type) ==
    LET out == NextOut(L.calls, "file")
        L1 == LegacyCall(L, "file", path, file_type)
        shown == IF out = "ok"
                 THEN Shown("syntax", IF file_type = "script" THEN ScriptOf(path)
                                      ELSE JobOf(path))
                 ELSE ErrorShown("File type '" \o file_type \o "' not available.")
    IN IF L.pc = "crashed" THEN L
       ELSE IF out \notin {"ok", "RuntimeError"} THEN [L1 EXCEPT !.pc = "crashed"]
       ELSE IF file_type = "script" THEN [L1 EXCEPT !.view_script = shown]
       ELSE [L1 EXCEPT !.view_job = shown]

\* EcflowTUI.action_load_node
legacy_action_load_node(L) ==
    IF L.cursor = "None"
    THEN LegacyNotify(L, <<"No node selected", "", "warning">>)
    ELSE legacy_load_code_content(
             legacy_load_code_content(
                 legacy_load_log_content(
                     LegacyNotify(L, <<"Loading files for", L.cursor, "">>), L.cursor),
                 L.cursor, "script"),
             L.cursor, "job")

\* command_name.capitalize()
legacy_capitalize(cmd) ==
    CASE cmd = "suspend" -> "Suspend"
      [] cmd = "resume" -> "Resume"
      [] cmd = "kill" -> "Kill"
      [] cmd = "force_complete" -> "Force_complete"

\* EcflowTUI._run_client_command(command_name, self.get_selected_path())
legacy_run_client_command(L, cmd) ==
    LET out == NextOut(L.calls, cmd)
        L1 == LegacyCall(L, cmd, L.cursor, "")
    IN IF L.cursor = "None" THEN L
       ELSE IF out = "ok"
       THEN legacy_action_refresh(LegacyNotify(L1, <<legacy_capitalize(cmd), L.cursor, "">>))
       ELSE LegacyNotify(L1, <<"Error", "", "error">>)

\* The application has nothing left to run.
FullQuiet ==
    /\ connPc \in {"done", "failed"}
    /\ \A i \in DOMAIN refresh : refresh[i].pc = "done"
    /\ \A w \in BagToSet(workers) : w.pc \in {"done", "raised"}

\* What the steps of the prototype leave alone.
LegacyOnly ==
    UNCHANGED <<contentVars, statusVars, treeVars, selected, serverVars, appVars, calls, ops,
                screenVars, temp_files, scenario>>

\* The prototype is mounted.
legacy_on_mount ==
    /\ legacy.pc = "unmounted"
    /\ legacy' = legacy_on_mount_handler(legacy)
    /\ LegacyOnly

\* The user moves the cursor of the prototype to the first row of its tree.
legacy_cursor ==
    /\ legacy.pc = "mounted" /\ legacy.keys = 0
    /\ scenario.select /\ legacy.cursor = "None" /\ legacy.tree # <<>>
    /\ legacy' = [legacy EXCEPT !.cursor = legacy.tree[1]]
    /\ LegacyOnly

\* The user presses the key of the scenario in the prototype.
legacy_key ==
    /\ legacy.pc = "mounted" /\ legacy.keys = 0
    /\ scenario.key # "none"
    /\ scenario.select => legacy.cursor # "None" \/ legacy.tree = <<>>
    /\ legacy' = [(CASE scenario.key = "refresh" -> legacy_action_refresh(legacy)
                     [] scenario.key = "load" -> legacy_action_load_node(legacy)
                     [] OTHER -> legacy_run_client_command(legacy, scenario.key))
                     EXCEPT !.keys = 1]
    /\ LegacyOnly

\* The steps of the application, each call ending as the scenario says.
scenario_connect ==
    /\ initial_connect_worker
    /\ calls' # calls =>
         LET out == NextOut(calls, IF connPc = "construct" THEN "EcflowClient" ELSE "ping")
         IN connPc' = CASE out = "RuntimeError" -> "fail_notify"
                        [] out = "Exception" -> "unexp_notify"
                        [] connPc = "construct" -> "ping"
                        [] OTHER -> "refresh"

scenario_refresh(i) ==
    /\ refresh_worker(i)
    /\ calls' # calls =>
         LET out == NextOut(calls, refresh[i].pc)
         IN refresh'[i].pc = CASE out = "RuntimeError" -> "err_status"
                               [] out = "Exception" -> "unexp_notify"
                               [] refresh[i].pc = "sync_local" -> "get_defs"
                               [] OTHER -> "update_tree"

scenario_command(w) ==
    /\ run_client_command(w)
    /\ calls' # calls =>
         \E w2 \in BagToSet(workers') :
             w2.kind = "cmd" /\ w2.out = Append(w.out, NextOut(calls, w.arg))

scenario_load(w) ==
    /\ load_node_worker(w)
    /\ calls' # calls =>
         \E w2 \in BagToSet(workers') :
             /\ w2.kind = "load"
             /\ w2.out = Append(w.out, NextOut(calls, IF w.pc = "sync_local" THEN "sync_local"
                                                      ELSE "file"))

\* The user moves the cursor of the application to the first row of its tree.
scenario_cursor ==
    /\ FullQuiet /\ ops = 0
    /\ scenario.select /\ selected = "None" /\ treeRows # <<>>
    /\ CursorMoves
    /\ selected' = treeRows[1].data

\* The user presses the key of the scenario in the application.
scenario_key ==
    /\ FullQuiet /\ ops = 0
    /\ scenario.key # "none"
    /\ scenario.select => selected # "None" \/ treeRows = <<>>
    /\ CASE scenario.key = "refresh" -> UserRefresh
         [] scenario.key = "load" -> action_load_node
         [] OTHER -> action_run_client_command(scenario.key)

InitLegacy ==
    /\ InitApp /\ srvDefs.id <= 1
    /\ TweakerUnmounted /\ srvVariables = NoVariables /\ WhyIdle /\ ScreensIdle
    /\ scenario \in Scenarios
    /\ legacy = LegacyApp

NextLegacy ==
    \/ legacy_on_mount
    \/ legacy_cursor
    \/ legacy_key
    \/ scenario_connect
    \/ \E i \in DOMAIN refresh : scenario_refresh(i)
    \/ tree_workers
    \/ \E w \in BagToSet(workers) : scenario_command(w)
    \/ \E w \in BagToSet(workers) : scenario_load(w)
    \/ scenario_cursor
    \/ scenario_key

SpecLegacy == InitLegacy /\ [][NextLegacy]_vars

\* ------------------------------------------------------------ claim C33
\* Both have run the scenario to its end.
BothDone ==
    /\ legacy.pc = "mounted" /\ FullQuiet /\ ~appCrashed
    /\ ops = legacy.keys
    /\ ops = IF scenario.key = "none" THEN 0 ELSE 1
    /\ selected = legacy.cursor

SameCalls == legacy.calls = calls
SameNotifications == legacy.notes = notifications
\* the nodes of the prototype's tree are those of the snapshot the
\* application's tree holds
SameTree == legacy.tree = AllPaths(treeDefs)

\* C33 (as stated): for the operations the prototype implements, the same user
\* actions and server outcomes give, in the prototype and in the application,
\* the same client calls, the same notifications and the same tree contents,
\* a failed refresh included.
C33_LegacyEquivalence == BothDone => SameCalls /\ SameNotifications /\ SameTree

\* ------------------------------------- SpecCycle: the filter key, repeatedly
\* A tree built by update_tree for some host and port under some filter, or
\* holding no snapshot, and nothing else running.
InitCycle ==
    /\ log_output = <<>>
    /\ last_log_size = 0
    /\ is_live = FALSE
    /\ active = "tab_output"
    /\ view_script = Shown("empty", <<>>)
    /\ view_job = Shown("empty", <<>>)
    /\ ecflow_client = "Client"
    /\ connPc = "done"
    /\ notifications = EmptyBag
    /\ modals = <<>>
    /\ refresh = <<>>
    /\ workers = EmptyBag
    /\ appCrashed = FALSE
    /\ \E d \in {NoDefs, Snapshot(1)}, host \in RootHosts, k \in 1..Len(Filters) :
         /\ treeDefs = d
         /\ current_filter = Filters[k]
         /\ treeRows = IF d = NoDefs THEN <<>> ELSE TopLevel(d, Filters[k])
         /\ rootLabel = IF d = NoDefs THEN "Server Empty" ELSE FilterLabel(host, Filters[k])
         /\ treeCache = IF d = NoDefs THEN NoCache
                        ELSE [present |-> TRUE, paths |-> AllPaths(d)]
    /\ clientDefs = treeDefs
    /\ srvDefs = treeDefs
    /\ sbStatus = IF treeDefs = NoDefs THEN "Connected" ELSE treeDefs.state
    /\ sbInfo = "host:port"
    /\ sbVersion = "Unknown"
    /\ selected = "None"
    /\ jobout = <<>>
    /\ logCalls = <<>>
    /\ calls = EmptyBag
    /\ ops = 0
    /\ TweakerClosed

CycleKey == ops < MaxCycleKeys /\ action_cycle_filter

NextCycle ==
    \/ CycleKey
    \/ tree_workers

SpecCycle == InitCycle /\ [][NextCycle]_vars

\* ------------------------------------------------------------ claim C34
\* six applications of the step through the list
RECURSIVE Cycled(_, _)
Cycled(flt, n) == IF n = 0 THEN flt ELSE Cycled(NextFilter(flt), n - 1)

\* the host and port the tree was last built with, as its label shows them
BuiltWith(host) == treeDefs # NoDefs /\ rootLabel = FilterLabel(host, current_filter)

\* the tree has just been rebuilt from the snapshot for that host and port
RebuiltWith(host) ==
    /\ rootLabel' = FilterLabel(host, current_filter')
    /\ treeRows' = <<>>
    /\ \E w \in BagToSet(workers') :
           w.kind = "populate" /\ w.pc = "start" /\ CopiesIn(w, workers') > CopiesIn(w, workers)

\* C34 (as stated): each cycle_filter call moves the filter to the next entry
\* of None, aborted, active, queued, submitted, suspended, wrapping around, so
\* six calls restore the starting filter; a cycle never changes the snapshot
\* the tree holds, and when a snapshot is present the tree is rebuilt from it
\* with the host and port it was last built with.
C34_FilterCycling ==
    [][ops' # ops =>
          /\ \E k \in 1..Len(Filters) :
                /\ current_filter = Filters[k]
                /\ current_filter' = Filters[IF k = Len(Filters) THEN 1 ELSE k + 1]
          /\ Cycled(current_filter, 6) = current_filter
          /\ treeDefs' = treeDefs
          /\ \A host \in RootHosts : BuiltWith(host) => RebuiltWith(host)]_vars

\* ------------------------------------------------------------ claim C35
OperatorNode(op, kids) == UiNode(<<OperatorLabel(op)>>, "None", kids)

\* The tree of x o1 y o2 z without parentheses: the split is at the leftmost
\* "or" when there is one, and at the leftmost "and" otherwise; the left part
\* comes first under the node.
FlatTree(x, o1, y, o2, z, defs) ==
    CASE o1 = "or" ->
           <<OperatorNode("or", <<leaf(x, defs),
                                  OperatorNode(o2, <<leaf(y, defs), leaf(z, defs)>>)>>)>>
      [] o2 = "or" ->
           <<OperatorNode("or", <<OperatorNode("and", <<leaf(x, defs), leaf(y, defs)>>),
                                  leaf(z, defs)>>)>>
      [] OTHER ->
           <<OperatorNode("and", <<leaf(x, defs),
                                   OperatorNode("and", <<leaf(y, defs), leaf(z, defs)>>)>>)>>

\* C35: an expression with an " or " at depth 0 gets an OR node split at the
\* leftmost such " or ", even when an " and " at depth 0 comes earlier; an AND
\* node is added only when there is no " or " at depth 0, split at the
\* leftmost " and "; the left part is parsed before the right one.
C35_OperatorChoice ==
    [][populate_dep_tree =>
          \A x, y, z \in NestLeaves : \A o1, o2 \in {"and", "or"} :
              why_expr = Join(Join(x, o1, y), o2, z)
                  => dep_tree' = FlatTree(x, o1, y, o2, z, why_defs)]_vars

\* /a == complete and /b != active or /a == complete was parsed into an OR
\* node whose first child is the AND node of the first two comparisons.
C35_Witness ==
    /\ why_expr = Join(Join(<<"/", "a", " ", "==", " ", "complete">>, "and",
                            <<"/", "b", " ", "!=", " ", "active">>), "or",
                       <<"/", "a", " ", "==", " ", "complete">>)
    /\ Len(dep_tree) = 1
    /\ dep_tree[1].label = <<EXPR_OR_LABEL>>
    /\ Len(dep_tree[1].kids) = 2
    /\ dep_tree[1].kids[1].label = <<EXPR_AND_LABEL>>
    /\ Len(dep_tree[1].kids[1].kids) = 2
    /\ dep_tree[1].kids[2].kids = <<>>

\* ------------------------------------------------------------ claim C36
\* C36: an expression inside one or more pairs of parentheses that wrap it
\* whole is parsed into the tree of the expression itself, while (A) op (B),
\* whose first parenthesis closes before the end, is not stripped: it is
\* parsed into one operator node over the leaves of A and B.
C36_OuterParentheses ==
    [][populate_dep_tree =>
          /\ \A e \in Pairs \cup NestLeaves : \A n \in 1..MaxWrap :
                why_expr = Wrap(e, n) => dep_tree' = parse_expression(e, why_defs)
          /\ \A x, y \in NestLeaves : \A o \in {"and", "or"} :
                why_expr = Join(Paren(x), o, Paren(y))
                    => dep_tree' = <<OperatorNode(o, <<leaf(x, why_defs),
                                                       leaf(y, why_defs)>>)>>]_vars

\* ((( /a == complete ) and ( /b != active ))) in two layers was parsed into
\* the AND node of the two comparisons.
C36_Witness ==
    /\ why_expr = Wrap(Join(Paren(<<"/", "a", " ", "==", " ", "complete">>), "and",
                            Paren(<<"/", "b", " ", "!=", " ", "active">>)), 2)
    /\ Len(dep_tree) = 1
    /\ dep_tree[1].label = <<EXPR_AND_LABEL>>
    /\ Len(dep_tree[1].kids) = 2
    /\ dep_tree[1].kids[1].kids = <<>>
    /\ dep_tree[1].kids[2].kids = <<>>

\* ------------------------------------------------------------ claim C37
\* The walks of _select_by_path_logic that are over: the worker returned for a
\* missing part, raised, or went through _select_and_reveal.
WalkOver == {w \in BagToSet(workers) :
               w.kind = "find" /\ w.path # "None" /\ w.pc \in {"returned", "raised", "selected"}}

\* The path is one of the paths of the snapshot the tree holds.
NamesNode(path) ==
    treeDefs # NoDefs /\ \E k \in 1..Len(AllPaths(treeDefs)) : AllPaths(treeDefs)[k] = path

\* C37: a walk to a path that names a node of the current snapshot finds the
\* row of every part, whatever expansions are in flight when it runs: the
\* walk never ends on a missing part or raises, it ends in the selection of
\* the row.
C37_WalkFindsEveryPart ==
    \A w \in WalkOver : NamesNode(w.path) => w.pc = "selected"

\* ------------------------------------------------------------ claim C38
\* C38: in every reachable state a path cache that is present is the flat list
\* of the absolute paths of the snapshot the tree holds; a builder that walked
\* an older snapshot does not install its list once the snapshot is replaced.
C38_PathCacheCoherence ==
    treeCache.present => treeDefs # NoDefs /\ treeCache.paths = AllPaths(treeDefs)

\* --------------------- SpecKeys: the names a refresh can meet on a task
\* The task has any of the user variables A, TASK and inh_A, its family and
\* its suite have A or not; the screen is opened, refreshes, and the user
\* moves through the rows and selects them.
KeyVariables ==
    {sv \in [DOMAIN NoVariables -> [VarNameSet -> {"None", "1", "f", "s"}]] :
        /\ \A n \in VarNameSet : sv[node_path][n] \in {"None", "1"}
        /\ sv["/s1/f"]["A"] \in {"None", "f"}
        /\ sv["/s1"]["A"] \in {"None", "s"}
        /\ \A p \in {"/s1/f", "/s1"} : sv[p]["TASK"] = "None" /\ sv[p]["inh_A"] = "None"}

InitKeys ==
    /\ SessionApp(<<>>)
    /\ treeDefs = Snapshot(1)
    /\ selected = "None"
    /\ srvDefs = clientDefs
    /\ TweakerUnmounted
    /\ srvVariables \in KeyVariables
    /\ UnitsIdle

NextKeys ==
    \/ on_mount
    \/ TableCursorMoves
    \/ on_data_table_row_selected
    \/ \E w \in BagToSet(tweakWorkers) : refresh_vars_worker(w)

SpecKeys == InitKeys /\ [][NextKeys]_vars

\* ------------------------------------------------------------ claim C39
\* The rows are keyed apart, and the "inh_" keys are those of the rows typed
\* "Inherited (<parent>)".
IsInherited(type) ==
    \E k \in 1..Len(ParentsOf(node_path)) :
        type = "Inherited (" \o NameOf(ParentsOf(node_path)[k]) \o ")"

WellKeyed(rows) ==
    /\ \A a, b \in 1..Len(rows) : a # b => rows[a].key # rows[b].key
    /\ \A a \in 1..Len(rows) : startswith_inh(rows[a].key) <=> IsInherited(rows[a].type)

\* C39: whatever the node's own, generated and inherited variables are named,
\* the rows a refresh produces have pairwise distinct keys, and a key starts
\* with "inh_" exactly when the row's type is Inherited.
C39_KeysWellFormed ==
    \A w \in TweakInFlight("refresh_vars", "update") : WellKeyed(w.rows)

\* ------------------------- SpecOutput: selections, live follow and the timer
\* SuiteTree.NodeSelected on row i (Enter or a click): the cursor is on the
\* row and Ectop.on_tree_node_selected calls action_load_node, which reads the
\* cursor's path and starts _load_node_worker.
on_tree_node_selected(i) ==
    /\ ~appCrashed
    /\ selected' = treeRows[i].data
    /\ IF ecflow_client = "None"
       THEN /\ notifications' = Notify(notifications, <<"No node selected", "", "warning">>)
            /\ UNCHANGED workers
       ELSE /\ workers' = workers (+) SetToBag({Worker("load", "notify", treeRows[i].data, "")})
            /\ UNCHANGED notifications
    /\ ops' = ops + 1
    /\ UNCHANGED <<unitVars, contentVars, statusVars, treeVars, serverVars, ecflow_client,
                   connPc, modals, refresh, appCrashed, calls>>

\* A connected session showing the two suites, the cursor on the root, live
\* follow off, the Output tab empty; the output file of /s1 holds j.
InitOutput ==
    /\ \E j \in Texts(MaxLog) : Session(j)
    /\ treeDefs = Snapshot(2)
    /\ srvDefs = treeDefs
    /\ selected = "None"

SelectKey == ops < MaxOutputKeys /\ \E i \in 1..Len(treeRows) : on_tree_node_selected(i)
TickKey == ops < MaxOutputKeys /\ live_log_tick

NextOutput ==
    \/ SelectKey
    \/ action_toggle_live
    \/ TickKey
    \/ \E w \in BagToSet(workers) : load_node_worker(w)
    \/ \E w \in BagToSet(workers) : live_log_worker_file(w)
    \/ \E w \in BagToSet(workers) : live_log_worker_update(w)

SpecOutput == InitOutput /\ [][NextOutput]_vars

\* ------------------------------------------------------------ claim C40
\* Every load worker has run to its end and no live-log worker is left, and
\* no call of theirs failed.
OutputQuiet ==
    /\ ~appCrashed
    /\ selected # "None"
    /\ \A w \in BagToSet(workers) :
          w.kind = "load" /\ w.pc = "done" /\ w.out = <<"ok", "ok", "ok", "ok">>

\* C40: after any selections, live-log toggles and timer ticks, once the load
\* and live-log workers have completed, the Output view holds exactly the
\* jobout of the selected node: no worker of an earlier selection and no tick
\* of an ended live follow has written into it.
C40_OutputOfSelected ==
    OutputQuiet => Flatten(log_output) = JoboutOf(selected)

====
